-------------------------- MODULE Clearing_proofs --------------------------
(***************************************************************************)
(* Proofs about Clearing for any users, prices, amounts, fees and batches. *)
(*                                                                         *)
(* The largest part shows of one order, executed or withdrawn, that what   *)
(* the matcher proves of it is Honest: verify accepts it from any state of *)
(* the chain that agrees with the tree it starts from, its leaves move     *)
(* funds between users and fees only, and it was matched between prices it *)
(* met.  For that, the pages a trade opens are put in order, and what was  *)
(* taken is added up once by orders, once by pages and once by makers.     *)
(*                                                                         *)
(* A batch of proofs is then followed through verify_batch one proof after *)
(* the other, the earliest that goes wrong leading to a contradiction, and *)
(* what both keep is the inductive invariant Inv.                          *)
(*                                                                         *)
(* Beside it, AmountsInv says that no amount goes below zero: the frozen   *)
(* funds of a user are what the rests of its open orders can still take.   *)
(***************************************************************************)
EXTENDS Clearing, SumTheorems, SequenceTheorems

(* A book of open orders.                                                  *)
Open(O) ==
  /\ IsFiniteSet(DOMAIN O) /\ DOMAIN O \subseteq Nat
  /\ \A i \in DOMAIN O : O[i] \in Order

(* Every ask is above every bid.                                           *)
Uncrossed(O) ==
  \A i, j \in DOMAIN O : O[i].side = "ask" /\ O[j].side = "bid" => O[i].price > O[j].price

(* What is left of each order.                                             *)
Rests(O) == [i \in DOMAIN O |-> O[i].rest]

(* The fields of an open order and of a command.                           *)
LEMMA OrderFields ==
  ASSUME NEW O, Open(O)
  PROVE  \A i \in DOMAIN O :
           /\ O[i].who \in User /\ O[i].side \in {"ask", "bid"} /\ O[i].price \in Price
           /\ O[i].price \in Nat \ {0} /\ O[i].rest \in Nat \ {0} /\ i \in Nat
BY ClearingAssumption DEF Open, Order, Side

(* The fields of a command are in the ranges of the constants.             *)
LEMMA CmdFields ==
  ASSUME NEW c \in Cmd
  PROVE  /\ c.who \in User /\ c.side \in {"ask", "bid"} /\ c.price \in Price
         /\ c.price \in Nat \ {0} /\ c.amount \in Nat \ {0}
         /\ c.maker_fee \in Nat /\ c.taker_fee \in Nat
         /\ c.maker_fee <= MaxMakerFee /\ c.taker_fee <= MaxTakerFee
         /\ c.maker_fee <= Parts /\ c.taker_fee <= Parts
<1>1. /\ c.who \in User /\ c.side \in Side /\ c.price \in Price /\ c.amount \in Amount
      /\ c.maker_fee \in MakerFee /\ c.taker_fee \in TakerFee
  BY DEF Cmd
<1>2. c.price \in Nat \ {0} /\ c.amount \in Nat \ {0} BY <1>1, ClearingAssumption
<1>3. /\ c.maker_fee \in Nat /\ c.taker_fee \in Nat
      /\ c.maker_fee <= MaxMakerFee /\ c.taker_fee <= MaxTakerFee
      /\ c.maker_fee <= Parts /\ c.taker_fee <= Parts
  BY <1>1, ClearingAssumption
<1>. QED BY <1>1, <1>2, <1>3 DEF Side

(* The orders a taker crosses are ordered by price and time.               *)
LEMMA AheadOrders ==
  ASSUME NEW O, Open(O), NEW c \in Cmd
  PROVE  LET C == Crossing(O, c)
         IN /\ IsFiniteSet(C) /\ C \subseteq DOMAIN O
            /\ \A i : Ahead(O, c, i) \subseteq C
            /\ \A i \in C : i \notin Ahead(O, c, i)
            /\ \A i \in C : \A j \in Ahead(O, c, i) : Ahead(O, c, j) \subseteq Ahead(O, c, i)
            /\ \A i, j \in C : i = j \/ i \in Ahead(O, c, j) \/ j \in Ahead(O, c, i)
<1>. DEFINE C == Crossing(O, c)
<1>1. C \subseteq DOMAIN O BY DEF Crossing
<1>2. IsFiniteSet(C) BY <1>1, FS_Subset DEF Open
<1>3. \A i \in C : O[i].price \in Nat /\ i \in Nat BY <1>1, OrderFields
<1>. HIDE DEF C
<1>4. \A i : Ahead(O, c, i) \subseteq C BY DEF Ahead, C
<1>5. \A i \in C : i \notin Ahead(O, c, i) BY <1>3 DEF Ahead, Before, Better, C
<1>6. \A i, j, k \in C : Before(O, c.side, i, j) /\ Before(O, c.side, j, k) => Before(O, c.side, i, k)
  BY <1>3 DEF Before, Better
<1>7. \A i \in C : \A j \in Ahead(O, c, i) : Ahead(O, c, j) \subseteq Ahead(O, c, i)
  BY <1>6 DEF Ahead, C
<1>8. \A i, j \in C : i = j \/ Before(O, c.side, i, j) \/ Before(O, c.side, j, i)
  BY <1>3 DEF Before, Better
<1>9. \A i, j \in C : i = j \/ i \in Ahead(O, c, j) \/ j \in Ahead(O, c, i)
  BY <1>8 DEF Ahead, C
<1>. QED BY <1>1, <1>2, <1>4, <1>5, <1>7, <1>9 DEF C

(* So are the ones within reach, up to an order of the taker itself.       *)
LEMMA ReachOrders ==
  ASSUME NEW O, Open(O), NEW c \in Cmd
  PROVE  LET C == Reach(O, c)
         IN /\ IsFiniteSet(C) /\ C \subseteq Crossing(O, c)
            /\ \A i \in C : Ahead(O, c, i) \subseteq C
            /\ \A i \in C : O[i].who # c.who
            /\ MeetsOwn(O, c) = {} => C = Crossing(O, c)
<1>1. Reach(O, c) \subseteq Crossing(O, c) BY DEF Reach
<1>2. IsFiniteSet(Reach(O, c)) BY <1>1, AheadOrders, FS_Subset
<1>3. ASSUME NEW i \in Reach(O, c), NEW j \in Ahead(O, c, i) PROVE j \in Reach(O, c)
  <2>1. i \in Crossing(O, c) /\ j \in Crossing(O, c) BY <1>1, AheadOrders
  <2>2. Ahead(O, c, j) \cup {j} \subseteq Ahead(O, c, i) BY <2>1, AheadOrders
  <2>. QED BY <2>1, <2>2 DEF Reach
<1>4. \A i \in Reach(O, c) : O[i].who # c.who BY DEF Reach, MeetsOwn
<1>5. MeetsOwn(O, c) = {} => Reach(O, c) = Crossing(O, c) BY DEF Reach
<1>. QED BY <1>1, <1>2, <1>3, <1>4, <1>5

(* What is ahead of an order.                                              *)
Cum(O, c, i) == SumFunctionOnSet(Rests(O), Ahead(O, c, i))

(* From an order within reach the taker takes what it still wants after    *)
(* the orders ahead, and at most what the order has.                       *)
LEMMA FillsAre ==
  ASSUME NEW O, Open(O), NEW c \in Cmd
  PROVE  /\ DOMAIN Fills(O, c) = DOMAIN O
         /\ \A i \in DOMAIN O : /\ Cum(O, c, i) \in Nat
                                /\ Fills(O, c)[i] = IF i \in Reach(O, c) /\ Cum(O, c, i) < c.amount
                                     THEN IF c.amount - Cum(O, c, i) < O[i].rest
                                          THEN c.amount - Cum(O, c, i) ELSE O[i].rest
                                     ELSE 0
<1>. DEFINE sum(i) == SumFunction([j \in Ahead(O, c, i) |-> O[j].rest])
<1>1. ASSUME NEW i \in DOMAIN O PROVE sum(i) = Cum(O, c, i) /\ Cum(O, c, i) \in Nat
  <2>. DEFINE S == Ahead(O, c, i)  f == [j \in S |-> O[j].rest]
  <2>1. S \subseteq DOMAIN O /\ IsFiniteSet(S) BY AheadOrders, FS_Subset
  <2>2. \A j \in S : f[j] \in Int /\ Rests(O)[j] = f[j] /\ Rests(O)[j] \in Nat
    BY <2>1, OrderFields DEF Rests
  <2>3. sum(i) = SumFunctionOnSet(f, S) BY DEF SumFunction
  <2>. HIDE DEF S, f
  <2>4. SumFunctionOnSet(Rests(O), S) = SumFunctionOnSet(f, S) BY <2>1, <2>2, SumAgree
  <2>5. SumFunctionOnSet(Rests(O), S) \in Nat BY <2>1, <2>2, SumNat
  <2>. QED BY <2>3, <2>4, <2>5 DEF Cum, S
<1>2. /\ DOMAIN Fills(O, c) = DOMAIN O
      /\ \A i \in DOMAIN O : Fills(O, c)[i] =
           IF i \in Reach(O, c) /\ c.amount - sum(i) > 0
           THEN IF c.amount - sum(i) < O[i].rest THEN c.amount - sum(i) ELSE O[i].rest
           ELSE 0
  BY DEF Fills
<1>. HIDE DEF sum
<1>3. c.amount \in Nat BY CmdFields
<1>4. ASSUME NEW i \in DOMAIN O
      PROVE  /\ Cum(O, c, i) \in Nat
             /\ Fills(O, c)[i] = IF i \in Reach(O, c) /\ Cum(O, c, i) < c.amount
                  THEN IF c.amount - Cum(O, c, i) < O[i].rest THEN c.amount - Cum(O, c, i) ELSE O[i].rest
                  ELSE 0
  <2>1. c.amount - Cum(O, c, i) > 0 <=> Cum(O, c, i) < c.amount BY <1>1, <1>3
  <2>. QED BY <1>1, <1>2, <2>1
<1>. QED BY <1>2, <1>4

(* The total of what is taken, and how much of it comes from each order.   *)
LEMMA FillsFacts ==
  ASSUME NEW O, Open(O), NEW c \in Cmd, NEW F, F = Fills(O, c)
  PROVE  /\ F \in [DOMAIN O -> Nat]
         /\ \A i \in DOMAIN O : F[i] <= O[i].rest
         /\ \A i \in DOMAIN O : F[i] # 0 => i \in Reach(O, c)
         /\ \A i \in DOMAIN O : F[i] # 0 => \A j \in Ahead(O, c, i) : F[j] = O[j].rest
<1>1. c.amount \in Nat BY CmdFields
<1>2. \A i \in DOMAIN O : O[i].rest \in Nat BY OrderFields
<1>3. DOMAIN F = DOMAIN O /\ \A i \in DOMAIN O : F[i] \in Nat /\ F[i] <= O[i].rest
  BY <1>1, <1>2, FillsAre
<1>4. F \in [DOMAIN O -> Nat] BY <1>3 DEF Fills
<1>5. \A i \in DOMAIN O : F[i] # 0 => i \in Reach(O, c) /\ Cum(O, c, i) < c.amount BY FillsAre
<1>6. ASSUME NEW i \in DOMAIN O, F[i] # 0, NEW j \in Ahead(O, c, i) PROVE F[j] = O[j].rest
  <2>1. i \in Reach(O, c) /\ Cum(O, c, i) < c.amount BY <1>5, <1>6
  <2>2. i \in Crossing(O, c) BY <2>1, ReachOrders
  <2>3. j \in Reach(O, c) /\ j \in Crossing(O, c) /\ j \in DOMAIN O BY <1>6, <2>1, ReachOrders, AheadOrders
  <2>4. Ahead(O, c, j) \cup {j} \in SUBSET Ahead(O, c, i) /\ j \notin Ahead(O, c, j)
    BY <1>6, <2>2, <2>3, AheadOrders
  <2>. DEFINE f == Rests(O)  S == Ahead(O, c, i)  T == Ahead(O, c, j)  U == T \cup {j}
  <2>5. IsFiniteSet(S) /\ S \subseteq DOMAIN O BY AheadOrders, FS_Subset
  <2>6. \A k \in DOMAIN O : f[k] \in Nat /\ f[k] = O[k].rest BY <1>2 DEF Rests
  <2>. HIDE DEF f, S
  <2>7. SumFunctionOnSet(f, U) <= SumFunctionOnSet(f, S) BY <2>4, <2>5, <2>6, SumSubset DEF S
  <2>8. SumFunctionOnSet(f, U) = f[j] + SumFunctionOnSet(f, T)
    <3>1. IsFiniteSet(U) BY <2>4, <2>5, FS_Subset DEF S
    <3>2. j \in U /\ U \ {j} = T BY <2>4
    <3>3. \A k \in U : f[k] \in Int BY <2>4, <2>5, <2>6 DEF S
    <3>. HIDE DEF U, T
    <3>. QED BY <3>1, <3>2, <3>3, SumRemove
  <2>9. O[j].rest + Cum(O, c, j) <= Cum(O, c, i) BY <2>3, <2>6, <2>7, <2>8 DEF Cum, f, S
  <2>10. Cum(O, c, j) \in Nat /\ Cum(O, c, i) \in Nat /\ O[j].rest \in Nat BY <1>2, <2>3, FillsAre
  <2>11. Cum(O, c, j) < c.amount /\ ~(c.amount - Cum(O, c, j) < O[j].rest)
    BY <1>1, <2>1, <2>9, <2>10
  <2>. QED BY <2>3, <2>11, FillsAre
<1>. QED BY <1>3, <1>4, <1>5, <1>6

Least(x, y) == IF x < y THEN x ELSE y

(* Together they are the amount of the order, or all that is within reach. *)
LEMMA FillsTotal ==
  ASSUME NEW O, Open(O), NEW c \in Cmd, NEW F, F = Fills(O, c)
  PROVE  SumFunctionOnSet(F, DOMAIN O)
           = Least(c.amount, SumFunctionOnSet(Rests(O), Reach(O, c)))
<1>. DEFINE C == Reach(O, c)
            A == [i \in C |-> Ahead(O, c, i)]
            f == Rests(O)
            G == [r \in SUBSET C |-> Least(c.amount, SumFunctionOnSet(f, r))]
<1>1. c.amount \in Nat BY CmdFields
<1>2. \A i \in DOMAIN O : f[i] \in Nat /\ f[i] = O[i].rest BY OrderFields DEF Rests
<1>. HIDE DEF f
<1>3. C \subseteq Crossing(O, c) /\ C \subseteq DOMAIN O /\ IsFiniteSet(C) BY ReachOrders, AheadOrders
<1>4. \A r \in SUBSET C : SumFunctionOnSet(f, r) \in Nat
  <2>. SUFFICES ASSUME NEW r \in SUBSET C PROVE SumFunctionOnSet(f, r) \in Nat OBVIOUS
  <2>1. IsFiniteSet(r) /\ \A i \in r : f[i] \in Nat BY <1>2, <1>3, FS_Subset
  <2>. QED BY <2>1, SumNat
<1>5. G \in [SUBSET C -> Int] BY <1>1, <1>4 DEF Least
<1>6. /\ A \in [C -> SUBSET C]
      /\ \A i \in C : i \notin A[i]
      /\ \A i \in C : \A j \in A[i] : A[j] \subseteq A[i]
      /\ \A i, j \in C : i = j \/ i \in A[j] \/ j \in A[i]
  <2>1. \A i \in C : Ahead(O, c, i) \subseteq C BY ReachOrders
  <2>2. A \in [C -> SUBSET C] BY <2>1
  <2>3. \A i \in C : A[i] = Ahead(O, c, i) OBVIOUS
  <2>. HIDE DEF A
  <2>4. \A i \in C : i \notin A[i] BY <1>3, <2>3, AheadOrders
  <2>5. \A i \in C : \A j \in A[i] : A[j] \subseteq A[i]
    <3>. SUFFICES ASSUME NEW i \in C, NEW j \in A[i] PROVE A[j] \subseteq A[i] OBVIOUS
    <3>1. j \in C /\ j \in Ahead(O, c, i) /\ i \in Crossing(O, c) BY <1>3, <2>1, <2>3
    <3>2. Ahead(O, c, j) \subseteq Ahead(O, c, i) BY <3>1, AheadOrders
    <3>. QED BY <2>3, <3>1, <3>2
  <2>6. \A i, j \in C : i = j \/ i \in A[j] \/ j \in A[i]
    <3>. SUFFICES ASSUME NEW i \in C, NEW j \in C PROVE i = j \/ i \in A[j] \/ j \in A[i] OBVIOUS
    <3>1. i \in Crossing(O, c) /\ j \in Crossing(O, c) BY <1>3
    <3>. QED BY <2>3, <3>1, AheadOrders
  <2>. QED BY <2>2, <2>4, <2>5, <2>6
<1>7. ASSUME NEW i \in C PROVE F[i] = G[A[i] \cup {i}] - G[A[i]]
  <2>. DEFINE S == Ahead(O, c, i)  U == S \cup {i}
  <2>1. S \in SUBSET C /\ U \in SUBSET C /\ i \notin S /\ A[i] = S BY <1>3, ReachOrders, AheadOrders
  <2>2. i \in U /\ U \ {i} = S BY <2>1
  <2>3. IsFiniteSet(U) /\ \A k \in U : f[k] \in Int BY <1>2, <1>3, <2>1, FS_Subset
  <2>. HIDE DEF S, U
  <2>4. SumFunctionOnSet(f, U) = f[i] + SumFunctionOnSet(f, S) BY <2>2, <2>3, SumRemove
  <2>5. SumFunctionOnSet(f, S) = Cum(O, c, i) BY DEF Cum, f, S
  <2>6. i \in DOMAIN O /\ O[i].rest \in Nat /\ Cum(O, c, i) \in Nat /\ f[i] = O[i].rest
    BY <1>2, <1>3, OrderFields, FillsAre
  <2>7. F[i] = IF Cum(O, c, i) < c.amount
               THEN IF c.amount - Cum(O, c, i) < O[i].rest THEN c.amount - Cum(O, c, i) ELSE O[i].rest
               ELSE 0
    BY <2>6, FillsAre
  <2>8. G[U] = Least(c.amount, O[i].rest + Cum(O, c, i)) /\ G[S] = Least(c.amount, Cum(O, c, i))
    BY <2>1, <2>4, <2>5, <2>6
  <2>. HIDE DEF G, A, C
  <2>9. F[i] = G[U] - G[S] BY <1>1, <2>6, <2>7, <2>8 DEF Least
  <2>. QED BY <2>1, <2>9 DEF U
<1>8. SumFunctionOnSet(F, C) = G[C] - G[{}]
  <2>. HIDE DEF G, A, C
  <2>1. InOrder(C, A) BY <1>3, <1>6 DEF InOrder
  <2>2. AddsUp(C, A, G, F) BY <1>7 DEF AddsUp
  <2>. QED BY <1>5, <2>1, <2>2, Telescope
<1>9. G[{}] = 0 /\ G[C] = Least(c.amount, SumFunctionOnSet(f, C))
  <2>1. SumFunctionOnSet(f, {}) = 0 BY SumEmpty
  <2>2. {} \in SUBSET C /\ C \in SUBSET C OBVIOUS
  <2>3. G[{}] = Least(c.amount, 0) BY <2>1, <2>2
  <2>. QED BY <1>1, <2>2, <2>3 DEF Least
<1>10. G[C] \in Int
  <2>. C \in SUBSET C OBVIOUS
  <2>. QED BY <1>5
<1>11. SumFunctionOnSet(F, DOMAIN O) = SumFunctionOnSet(F, C)
  <2>1. \A i \in DOMAIN O : F[i] \in Int BY FillsFacts
  <2>2. \A i \in DOMAIN O \ C : F[i] = 0 BY FillsFacts
  <2>3. IsFiniteSet(DOMAIN O) BY DEF Open
  <2>. HIDE DEF C
  <2>. QED BY <1>3, <2>1, <2>2, <2>3, SumExtend
<1>. QED BY <1>8, <1>9, <1>10, <1>11 DEF f

(* What is left of an order stays only if all it crosses is taken.         *)
LEMMA RestFacts ==
  ASSUME NEW O, Open(O), NEW c \in Cmd, NEW F, F = Fills(O, c), NEW R, R = Rest(O, c)
  PROVE  /\ R \in Nat /\ SumFunctionOnSet(F, DOMAIN O) \in Nat
         /\ R # 0 => /\ SumFunctionOnSet(F, DOMAIN O) + R = c.amount
                     /\ \A i \in Crossing(O, c) : F[i] = O[i].rest
<1>. DEFINE all == SumFunctionOnSet(F, DOMAIN O)
            reach == SumFunctionOnSet(Rests(O), Reach(O, c))
<1>1. c.amount \in Nat BY CmdFields
<1>2. SumFunction(F) = all BY FillsAre DEF SumFunction
<1>3. all = Least(c.amount, reach) BY FillsTotal
<1>4. reach \in Nat /\ \A r \in SUBSET Reach(O, c) : SumFunctionOnSet(Rests(O), r) <= reach
  <2>1. IsFiniteSet(Reach(O, c)) /\ \A i \in Reach(O, c) : Rests(O)[i] \in Nat
    BY ReachOrders, AheadOrders, OrderFields DEF Rests
  <2>. QED BY <2>1, SumNat, SumSubset
<1>5. R = IF MeetsOwn(O, c) # {} THEN 0 ELSE c.amount - all BY <1>2 DEF Rest
<1>. HIDE DEF all, reach
<1>6. all \in Nat /\ all <= c.amount BY <1>1, <1>3, <1>4 DEF Least
<1>7. R \in Nat BY <1>1, <1>5, <1>6
<1>8. ASSUME R # 0
      PROVE  all + R = c.amount /\ \A i \in Crossing(O, c) : F[i] = O[i].rest
  <2>1. MeetsOwn(O, c) = {} /\ all + R = c.amount /\ all < c.amount BY <1>1, <1>5, <1>6, <1>7, <1>8
  <2>2. Reach(O, c) = Crossing(O, c) /\ reach < c.amount BY <1>1, <1>3, <1>4, <2>1, ReachOrders DEF Least
  <2>3. ASSUME NEW i \in Crossing(O, c) PROVE F[i] = O[i].rest
    <3>. DEFINE S == Ahead(O, c, i)  U == S \cup {i}  f == Rests(O)
    <3>1. S \in SUBSET Reach(O, c) /\ U \in SUBSET Reach(O, c) /\ i \notin S BY <2>2, AheadOrders
    <3>2. i \in U /\ U \ {i} = S BY <3>1
    <3>3. i \in DOMAIN O /\ i \in Reach(O, c) BY <2>2, AheadOrders
    <3>4. Cum(O, c, i) = SumFunctionOnSet(f, S) /\ f[i] = O[i].rest /\ O[i].rest \in Nat
      BY <3>3, OrderFields DEF Cum, Rests
    <3>5. IsFiniteSet(U) /\ \A k \in U : f[k] \in Int
      BY <3>1, ReachOrders, AheadOrders, OrderFields, FS_Subset DEF Rests
    <3>. HIDE DEF S, U, f
    <3>6. SumFunctionOnSet(f, U) = f[i] + SumFunctionOnSet(f, S) BY <3>2, <3>5, SumRemove
    <3>7. SumFunctionOnSet(f, U) <= reach BY <1>4, <3>1 DEF f
    <3>8. Cum(O, c, i) \in Nat BY <3>3, FillsAre
    <3>9. Cum(O, c, i) < c.amount /\ ~(c.amount - Cum(O, c, i) < O[i].rest)
      BY <1>1, <1>4, <2>2, <3>4, <3>6, <3>7, <3>8
    <3>. QED BY <3>3, <3>9, FillsAre
  <2>. QED BY <2>1, <2>3
<1>. QED BY <1>6, <1>7, <1>8 DEF all

(* Something was taken if and only if some order was filled.               *)
LEMMA FilledFacts ==
  ASSUME NEW O, Open(O), NEW c \in Cmd, NEW F, F = Fills(O, c)
  PROVE  /\ \A i : i \in Filled(F) <=> i \in DOMAIN O /\ F[i] # 0
         /\ SumFunctionOnSet(F, DOMAIN O) = 0 <=> Filled(F) = {}
<1>1. DOMAIN F = DOMAIN O /\ \A i \in DOMAIN O : F[i] \in Nat BY FillsFacts
<1>2. \A i : i \in Filled(F) <=> i \in DOMAIN O /\ F[i] # 0
  <2>1. \A i \in DOMAIN O : F[i] > 0 <=> F[i] # 0 BY <1>1
  <2>. QED BY <1>1, <2>1 DEF Filled
<1>3. IsFiniteSet(DOMAIN O) BY DEF Open
<1>4. Filled(F) = {} => SumFunctionOnSet(F, DOMAIN O) = 0 BY <1>2, <1>3, SumZero
<1>5. ASSUME NEW i \in Filled(F) PROVE SumFunctionOnSet(F, DOMAIN O) # 0
  <2>1. i \in DOMAIN O /\ F[i] # 0 BY <1>2
  <2>2. F[i] <= SumFunctionOnSet(F, DOMAIN O) BY <1>1, <1>3, <2>1, SumElement
  <2>. QED BY <1>1, <2>1, <2>2
<1>. QED BY <1>2, <1>4, <1>5

-----------------------------------------------------------------------------
(* The book after a trade.                                                 *)

(* After a trade the orders taken whole are gone, the others keep what was *)
(* not taken, and the rest of the taker's order, if any, is one more.      *)
LEMMA AfterFields ==
  ASSUME NEW O, Open(O), NEW c \in Cmd, NEW F, F = Fills(O, c), NEW R, R = Rest(O, c),
         NEW n \in Nat, n \notin DOMAIN O
  PROVE  LET P == OrdersAfter(O, c, F, R, n)
         IN /\ Open(P)
            /\ \A i \in DOMAIN O : F[i] = O[i].rest => i \notin DOMAIN P
            /\ \A i \in DOMAIN O : F[i] # O[i].rest =>
                 /\ i \in DOMAIN P /\ P[i].rest = O[i].rest - F[i]
                 /\ P[i].who = O[i].who /\ P[i].side = O[i].side /\ P[i].price = O[i].price
            /\ n \in DOMAIN P <=> R # 0
            /\ R # 0 => /\ P[n].who = c.who /\ P[n].side = c.side /\ P[n].price = c.price
                        /\ P[n].rest = R
            /\ \A i \in DOMAIN P : i = n \/ i \in DOMAIN O
<1>. DEFINE P == OrdersAfter(O, c, F, R, n)
            D == {j \in DOMAIN O : F[j] < O[j].rest} \cup (IF R = 0 THEN {} ELSE {n})
<1>1. \A i \in DOMAIN O : F[i] \in Nat /\ F[i] <= O[i].rest /\ O[i].rest \in Nat BY FillsFacts, OrderFields
<1>2. R \in Nat BY RestFacts
<1>3. /\ DOMAIN P = D
      /\ \A i \in D : P[i] = IF i = n
           THEN [who |-> c.who, side |-> c.side, price |-> c.price, rest |-> R]
           ELSE [O[i] EXCEPT !.rest = @ - F[i]]
  BY DEF OrdersAfter
<1>4. \A i \in D : i # n => i \in DOMAIN O /\ F[i] < O[i].rest OBVIOUS
<1>5. D \subseteq Nat /\ IsFiniteSet(D)
  <2>1. IsFiniteSet(DOMAIN O \cup {n}) BY FS_AddElement DEF Open
  <2>2. D \in SUBSET (DOMAIN O \cup {n}) OBVIOUS
  <2>3. IsFiniteSet(D) BY <2>1, <2>2, FS_Subset
  <2>. QED BY <2>3 DEF Open
<1>6. \A i \in DOMAIN O : F[i] = O[i].rest => i \notin D BY <1>1
<1>7. \A i \in DOMAIN O : F[i] # O[i].rest => i \in D BY <1>1
<1>8. (n \in D) <=> (R # 0) OBVIOUS
<1>9. \A i \in D : i = n \/ i \in DOMAIN O OBVIOUS
<1>. HIDE DEF D, P
<1>10. ASSUME NEW i \in D, i # n
       PROVE  /\ P[i] \in Order /\ P[i].rest = O[i].rest - F[i]
              /\ P[i].who = O[i].who /\ P[i].side = O[i].side /\ P[i].price = O[i].price
  <2>1. P[i] = [O[i] EXCEPT !.rest = @ - F[i]] BY <1>3, <1>10
  <2>2. i \in DOMAIN O /\ F[i] < O[i].rest BY <1>4, <1>10
  <2>3. O[i] \in Order BY <2>2 DEF Open
  <2>4. O[i].rest - F[i] \in Nat \ {0} BY <1>1, <2>2
  <2>. QED BY <2>1, <2>3, <2>4 DEF Order
<1>11. ASSUME R # 0
       PROVE  /\ P[n] \in Order /\ P[n].who = c.who /\ P[n].side = c.side
              /\ P[n].price = c.price /\ P[n].rest = R
  <2>1. P[n] = [who |-> c.who, side |-> c.side, price |-> c.price, rest |-> R] BY <1>3, <1>8, <1>11
  <2>2. c.who \in User /\ c.side \in Side /\ c.price \in Price BY CmdFields DEF Side
  <2>. QED BY <1>2, <1>11, <2>1, <2>2 DEF Order
<1>12. Open(P)
  <2>1. ASSUME NEW i \in D PROVE P[i] \in Order BY <1>8, <1>10, <1>11
  <2>. QED BY <1>3, <1>5, <2>1 DEF Open
<1>13. \A i \in DOMAIN O : F[i] # O[i].rest =>
         /\ i \in DOMAIN P /\ P[i].rest = O[i].rest - F[i]
         /\ P[i].who = O[i].who /\ P[i].side = O[i].side /\ P[i].price = O[i].price
  BY <1>3, <1>7, <1>10
<1>. QED BY <1>3, <1>6, <1>8, <1>9, <1>11, <1>12, <1>13 DEF P

(* The total of f over the chosen elements of S.                           *)
Chosen(f, S, K) == SumFunctionOnSet([i \in S |-> IF i \in K THEN f[i] ELSE 0], S)

(* Such a total of integers is an integer.                                 *)
LEMMA ChosenInt ==
  ASSUME NEW f, NEW S, IsFiniteSet(S), \A i \in S : f[i] \in Int, NEW K
  PROVE  Chosen(f, S, K) \in Int
<1>. DEFINE g == [i \in S |-> IF i \in K THEN f[i] ELSE 0]
<1>1. \A i \in S : g[i] \in Int OBVIOUS
<1>. HIDE DEF g
<1>2. SumFunctionOnSet(g, S) \in Int BY <1>1, SumInt
<1>. QED BY <1>2 DEF Chosen, g

(* A total over the book before a trade and over the book after it, if the *)
(* trade takes f[i] from what order i counts and adds r for a new order n. *)
LEMMA SumAfter ==
  ASSUME NEW D, IsFiniteSet(D), NEW n, n \notin D, NEW E \in SUBSET (D \cup {n}),
         NEW a, NEW b, NEW f, NEW r \in Int,
         \A i \in D : b[i] \in Int /\ f[i] \in Int,
         \A i \in D : i \notin E => b[i] = f[i],
         \A i \in E : i # n => a[i] = b[i] - f[i],
         n \in E => a[n] = r,
         n \notin E => r = 0
  PROVE  SumFunctionOnSet(a, E) = SumFunctionOnSet(b, D) - SumFunctionOnSet(f, D) + r
<1>. DEFINE U == D \cup {n}
            x == [i \in U |-> IF i = n THEN r ELSE b[i] - f[i]]
<1>1. IsFiniteSet(U) BY FS_AddElement
<1>2. x[n] = r /\ \A i \in D : x[i] \in Int /\ b[i] = x[i] + f[i] OBVIOUS
<1>3. \A i \in U : x[i] \in Int OBVIOUS
<1>4. E \in SUBSET U /\ \A i \in E : a[i] = x[i] OBVIOUS
<1>5. \A i \in U \ E : x[i] = 0 OBVIOUS
<1>6. n \in U /\ U \ {n} = D OBVIOUS
<1>. HIDE DEF U, x
<1>7. SumFunctionOnSet(a, E) = SumFunctionOnSet(x, U)
  <2>1. SumFunctionOnSet(x, U) = SumFunctionOnSet(x, E) BY <1>1, <1>3, <1>4, <1>5, SumExtend
  <2>2. IsFiniteSet(E) /\ \A i \in E : x[i] \in Int BY <1>1, <1>3, <1>4, FS_Subset
  <2>3. SumFunctionOnSet(a, E) = SumFunctionOnSet(x, E) BY <1>4, <2>2, SumAgree
  <2>. QED BY <2>1, <2>3
<1>8. SumFunctionOnSet(x, U) = x[n] + SumFunctionOnSet(x, U \ {n})
  BY ONLY <1>1, <1>3, <1>6, SumRemove
<1>9. \A i \in D : b[i] \in Int /\ f[i] \in Int /\ x[i] \in Int /\ b[i] = x[i] + f[i] BY <1>2
<1>10. SumFunctionOnSet(b, D) = SumFunctionOnSet(x, D) + SumFunctionOnSet(f, D)
  BY <1>9, SumAdd
<1>11. SumFunctionOnSet(x, D) \in Int /\ SumFunctionOnSet(f, D) \in Int BY <1>9, SumInt
<1>12. SumFunctionOnSet(a, E) = r + SumFunctionOnSet(x, D) BY <1>2, <1>6, <1>7, <1>8
<1>. QED BY ONLY <1>10, <1>11, <1>12, r \in Int

(* What is open of any choice of orders falls by what was taken of them,   *)
(* and grows by what stays of the new order.                               *)
LEMMA AfterSum ==
  ASSUME NEW O, Open(O), NEW c \in Cmd, NEW F, F = Fills(O, c), NEW R, R = Rest(O, c),
         NEW n \in Nat, n \notin DOMAIN O, NEW P, P = OrdersAfter(O, c, F, R, n), NEW K
  PROVE  Chosen(Rests(P), DOMAIN P, K)
           = Chosen(Rests(O), DOMAIN O, K) - Chosen(F, DOMAIN O, K) + (IF n \in K THEN R ELSE 0)
<1>. DEFINE D == DOMAIN O
            E == DOMAIN P
            a == [i \in E |-> IF i \in K THEN Rests(P)[i] ELSE 0]
            b == [i \in D |-> IF i \in K THEN Rests(O)[i] ELSE 0]
            f == [i \in D |-> IF i \in K THEN F[i] ELSE 0]
            r == IF n \in K THEN R ELSE 0
<1>1. \A i \in D : F[i] \in Nat /\ O[i].rest \in Nat /\ Rests(O)[i] = O[i].rest
  BY FillsFacts, OrderFields DEF Rests
<1>2. R \in Nat BY RestFacts
<1>3. IsFiniteSet(D) BY DEF Open
<1>4. E \in SUBSET (D \cup {n}) BY AfterFields
<1>5. \A i \in D : b[i] \in Int /\ f[i] \in Int BY <1>1
<1>6. \A i \in D : i \notin E => b[i] = f[i]
  <2>1. \A i \in D : i \notin E => F[i] = O[i].rest BY AfterFields
  <2>. QED BY <1>1, <2>1
<1>7. \A i \in E : i # n => a[i] = b[i] - f[i]
  <2>1. \A i \in E : i # n => i \in D /\ F[i] # O[i].rest BY AfterFields
  <2>2. \A i \in D : F[i] # O[i].rest => P[i].rest = O[i].rest - F[i] BY AfterFields
  <2>3. \A i \in E : i # n => i \in D /\ Rests(P)[i] = Rests(O)[i] - F[i] BY <1>1, <2>1, <2>2 DEF Rests
  <2>. QED BY <1>1, <2>3
<1>8. (n \in E => a[n] = r) /\ (n \notin E => r = 0)
  <2>1. (n \in E <=> R # 0) /\ (R # 0 => P[n].rest = R) BY AfterFields
  <2>. QED BY <2>1 DEF Rests
<1>9. r \in Int BY <1>2
<1>. HIDE DEF a, b, f, r, D, E
<1>10. SumFunctionOnSet(a, E) = SumFunctionOnSet(b, D) - SumFunctionOnSet(f, D) + r
  <2>1. n \notin D BY DEF D
  <2>. QED BY ONLY <1>3, <1>4, <1>5, <1>6, <1>7, <1>8, <1>9, <2>1, SumAfter
<1>11. /\ Chosen(Rests(P), DOMAIN P, K) = SumFunctionOnSet(a, E)
       /\ Chosen(Rests(O), DOMAIN O, K) = SumFunctionOnSet(b, D)
       /\ Chosen(F, DOMAIN O, K) = SumFunctionOnSet(f, D)
  BY DEF Chosen, a, b, f, D, E
<1>. QED BY <1>10, <1>11 DEF r

(* Sizes and pages are such choices.                                       *)
LEMMA SizeIsChosen ==
  ASSUME NEW O, NEW s, NEW K, \A i \in DOMAIN O : i \in K <=> O[i].side = s
  PROVE  SizeOf(O, s) = Chosen(Rests(O), DOMAIN O, K)
<1>1. [i \in DOMAIN O |-> IF O[i].side = s THEN O[i].rest ELSE 0]
        = [i \in DOMAIN O |-> IF i \in K THEN Rests(O)[i] ELSE 0]
  BY DEF Rests
<1>. QED BY <1>1 DEF SizeOf, SumFunction, Chosen

(* A page is the total of the orders at its price.                         *)
LEMMA PageIsChosen ==
  ASSUME NEW O, NEW p, NEW K, \A i \in DOMAIN O : i \in K <=> O[i].price = p
  PROVE  PageOf(O, p) = Chosen(Rests(O), DOMAIN O, K)
<1>1. [i \in DOMAIN O |-> IF O[i].price = p THEN O[i].rest ELSE 0]
        = [i \in DOMAIN O |-> IF i \in K THEN Rests(O)[i] ELSE 0]
  BY DEF Rests
<1>. QED BY <1>1 DEF PageOf, SumFunction, Chosen

OtherSide(s) == IF s = "ask" THEN "bid" ELSE "ask"

(* How a trade changes the sizes of the sides and a page.                  *)
LEMMA AfterSizes ==
  ASSUME NEW O, Open(O), NEW c \in Cmd, NEW F, F = Fills(O, c), NEW R, R = Rest(O, c),
         NEW n \in Nat, n \notin DOMAIN O, NEW P, P = OrdersAfter(O, c, F, R, n)
  PROVE  /\ SizeOf(O, "ask") \in Int /\ SizeOf(O, "bid") \in Int
         /\ SizeOf(P, c.side) = SizeOf(O, c.side) + R
         /\ SizeOf(P, OtherSide(c.side)) = SizeOf(O, OtherSide(c.side)) - SumFunctionOnSet(F, DOMAIN O)
<1>. DEFINE D == DOMAIN O
            K(s) == {i \in D : O[i].side = s} \cup (IF s = c.side THEN {n} ELSE {})
<1>1. c.side \in {"ask", "bid"} BY CmdFields
<1>2. IsFiniteSet(D) BY DEF Open
<1>3. \A i \in D : /\ F[i] \in Int /\ Rests(O)[i] \in Int
                   /\ F[i] # 0 => O[i].side # c.side
                   /\ O[i].side \in {"ask", "bid"}
  <2>1. \A i \in D : F[i] # 0 => i \in Crossing(O, c) BY FillsFacts, ReachOrders
  <2>. QED BY <2>1, FillsFacts, OrderFields DEF Rests, Crossing
<1>4. \A s : \A i \in D : i \in K(s) <=> O[i].side = s OBVIOUS
<1>5. \A s : \A i \in DOMAIN P : i \in K(s) <=> P[i].side = s
  <2>. SUFFICES ASSUME NEW s, NEW i \in DOMAIN P PROVE i \in K(s) <=> P[i].side = s OBVIOUS
  <2>1. CASE i = n
    <3>1. P[i].side = c.side BY <2>1, AfterFields
    <3>. QED BY <2>1, <3>1
  <2>2. CASE i # n
    <3>1. i \in D /\ P[i].side = O[i].side BY <2>2, AfterFields
    <3>. QED BY <2>2, <3>1
  <2>. QED BY <2>1, <2>2
<1>6. (n \in K(c.side)) /\ (n \notin K(OtherSide(c.side))) BY <1>1 DEF OtherSide
<1>. HIDE DEF K
<1>7. \A s : SizeOf(O, s) = Chosen(Rests(O), D, K(s)) /\ SizeOf(O, s) \in Int
  <2>. SUFFICES ASSUME NEW s PROVE SizeOf(O, s) = Chosen(Rests(O), D, K(s)) /\ SizeOf(O, s) \in Int OBVIOUS
  <2>1. SizeOf(O, s) = Chosen(Rests(O), D, K(s)) BY <1>4, SizeIsChosen
  <2>. QED BY <1>2, <1>3, <2>1, ChosenInt
<1>8. \A s : SizeOf(P, s) = Chosen(Rests(P), DOMAIN P, K(s)) BY <1>5, SizeIsChosen
<1>9. \A s : SizeOf(P, s) = SizeOf(O, s) - Chosen(F, D, K(s)) + (IF n \in K(s) THEN R ELSE 0)
  BY <1>7, <1>8, AfterSum
<1>10. Chosen(F, D, K(c.side)) = 0
  <2>1. \A i \in D : [j \in D |-> IF j \in K(c.side) THEN F[j] ELSE 0][i] = 0 BY <1>3, <1>4
  <2>. QED BY <1>2, <2>1, SumZero DEF Chosen
<1>11. Chosen(F, D, K(OtherSide(c.side))) = SumFunctionOnSet(F, D)
  <2>. DEFINE g == [j \in D |-> IF j \in K(OtherSide(c.side)) THEN F[j] ELSE 0]
  <2>1. \A i \in D : F[i] = g[i] /\ g[i] \in Int BY <1>1, <1>3, <1>4 DEF OtherSide
  <2>. HIDE DEF g
  <2>2. SumFunctionOnSet(F, D) = SumFunctionOnSet(g, D) BY <1>2, <2>1, SumAgree
  <2>. QED BY <2>2 DEF Chosen, g
<1>12. R \in Int /\ SumFunctionOnSet(F, D) \in Int BY RestFacts
<1>13. SizeOf(P, c.side) = SizeOf(O, c.side) - 0 + R BY <1>6, <1>9, <1>10
<1>14. SizeOf(P, OtherSide(c.side)) = SizeOf(O, OtherSide(c.side)) - SumFunctionOnSet(F, D) + 0
  BY <1>6, <1>9, <1>11
<1>. QED BY <1>7, <1>12, <1>13, <1>14

AtPrice(O, p) == {i \in DOMAIN O : O[i].price = p}

(* A trade changes a page by what it took from orders at the price, and    *)
(* the page of the taker's own price by what stays of the taker's order.   *)
LEMMA AfterPage ==
  ASSUME NEW O, Open(O), NEW c \in Cmd, NEW F, F = Fills(O, c), NEW R, R = Rest(O, c),
         NEW n \in Nat, n \notin DOMAIN O, NEW P, P = OrdersAfter(O, c, F, R, n), NEW p
  PROVE  /\ PageOf(O, p) = Chosen(Rests(O), DOMAIN O, AtPrice(O, p)) /\ PageOf(O, p) \in Int
         /\ Chosen(F, DOMAIN O, AtPrice(O, p)) \in Int
         /\ PageOf(P, p) = PageOf(O, p) - Chosen(F, DOMAIN O, AtPrice(O, p))
                             + (IF p = c.price THEN R ELSE 0)
<1>. DEFINE D == DOMAIN O
            K == AtPrice(O, p) \cup (IF p = c.price THEN {n} ELSE {})
<1>1. IsFiniteSet(D) BY DEF Open
<1>2. \A i \in D : F[i] \in Int /\ Rests(O)[i] \in Int BY FillsFacts, OrderFields DEF Rests
<1>3. \A i \in D : (i \in K <=> O[i].price = p) /\ (i \in AtPrice(O, p) <=> O[i].price = p) BY DEF AtPrice
<1>4. ASSUME NEW i \in DOMAIN P PROVE i \in K <=> P[i].price = p
  <2>1. CASE i = n
    <3>1. P[i].price = c.price BY <2>1, AfterFields
    <3>2. i \in K <=> p = c.price BY <2>1 DEF AtPrice
    <3>. QED BY <3>1, <3>2
  <2>2. CASE i # n
    <3>1. i \in D /\ P[i].price = O[i].price BY <2>2, AfterFields
    <3>. QED BY <2>2, <3>1, <1>3
  <2>. QED BY <2>1, <2>2
<1>5. n \in K <=> p = c.price BY DEF AtPrice
<1>. HIDE DEF K
<1>6. PageOf(O, p) = Chosen(Rests(O), D, K) BY <1>3, PageIsChosen
<1>7. PageOf(P, p) = Chosen(Rests(P), DOMAIN P, K) BY <1>4, PageIsChosen
<1>8. PageOf(O, p) = Chosen(Rests(O), D, AtPrice(O, p)) BY <1>3, PageIsChosen
<1>9. Chosen(F, D, K) = Chosen(F, D, AtPrice(O, p))
  <2>1. [i \in D |-> IF i \in K THEN F[i] ELSE 0] = [i \in D |-> IF i \in AtPrice(O, p) THEN F[i] ELSE 0]
    BY <1>3
  <2>. QED BY <2>1 DEF Chosen
<1>10. PageOf(O, p) \in Int /\ Chosen(F, D, AtPrice(O, p)) \in Int BY <1>1, <1>2, <1>8, ChosenInt
<1>11. Chosen(Rests(P), DOMAIN P, K) = Chosen(Rests(O), D, K) - Chosen(F, D, K) + (IF n \in K THEN R ELSE 0)
  BY AfterSum
<1>. QED BY <1>5, <1>6, <1>7, <1>8, <1>9, <1>10, <1>11

-----------------------------------------------------------------------------
(* Best prices.                                                            *)

(* The prices of the open orders on a side.                                *)
PricesOn(O, s) == {O[i].price : i \in {j \in DOMAIN O : O[j].side = s}}

(* The best price is the end of the prices on a side, or 0 without any.    *)
LEMMA BestIs ==
  ASSUME NEW O, NEW s
  PROVE  BestOf(O, s) = IF PricesOn(O, s) = {} THEN 0
                        ELSE IF s = "ask" THEN Min(PricesOn(O, s)) ELSE Max(PricesOn(O, s))
BY DEF BestOf, PricesOn

(* The prices on a side are finitely many, and positive.                   *)
LEMMA PricesOnFinite ==
  ASSUME NEW O, Open(O), NEW s
  PROVE  PricesOn(O, s) \subseteq Nat \ {0} /\ IsFiniteSet(PricesOn(O, s))
<1>. DEFINE S == {j \in DOMAIN O : O[j].side = s}
            f == [i \in DOMAIN O |-> O[i].price]
<1>1. IsFiniteSet(S) BY FS_Subset DEF Open
<1>2. {f[i] : i \in S} = {O[i].price : i \in S} OBVIOUS
<1>3. IsFiniteSet({f[i] : i \in S}) BY <1>1, FiniteImage
<1>4. PricesOn(O, s) \subseteq Nat \ {0} BY OrderFields DEF PricesOn
<1>. QED BY <1>2, <1>3, <1>4 DEF PricesOn

(* The best price of a side is the price of one of its orders, and no      *)
(* order of the side is better; it is zero only for an empty side.         *)
LEMMA BestFacts ==
  ASSUME NEW O, Open(O), NEW s \in {"ask", "bid"}
  PROVE  /\ BestOf(O, s) \in Nat
         /\ BestOf(O, s) # 0 => \E i \in DOMAIN O : O[i].side = s /\ O[i].price = BestOf(O, s)
         /\ \A i \in DOMAIN O : O[i].side = s =>
              /\ BestOf(O, s) # 0
              /\ s = "ask" => BestOf(O, s) <= O[i].price
              /\ s = "bid" => BestOf(O, s) >= O[i].price
<1>. DEFINE T == PricesOn(O, s)
<1>1. T \subseteq Nat \ {0} /\ IsFiniteSet(T) BY PricesOnFinite
<1>2. \A i \in DOMAIN O : O[i].side = s => O[i].price \in T BY DEF PricesOn
<1>3. \A p \in T : \E i \in DOMAIN O : O[i].side = s /\ O[i].price = p BY DEF PricesOn
<1>. HIDE DEF T
<1>4. CASE T = {}
  <2>1. BestOf(O, s) = 0 BY <1>4, BestIs DEF T
  <2>. QED BY <1>2, <1>4, <2>1
<1>5. CASE T # {}
  <2>1. CASE s = "ask"
    <3>1. BestOf(O, s) = Min(T) BY <1>5, <2>1, BestIs DEF T
    <3>2. T \subseteq Nat BY <1>1
    <3>3. \E n \in T : \A m \in T : n <= m BY <1>5, <3>2, LeastNat
    <3>4. Min(T) \in T /\ \A m \in T : Min(T) <= m BY <3>3 DEF Min
    <3>. QED BY <1>1, <1>2, <1>3, <2>1, <3>1, <3>4
  <2>2. CASE s = "bid"
    <3>1. BestOf(O, s) = Max(T) BY <1>5, <2>2, BestIs DEF T
    <3>2. T \subseteq Nat BY <1>1
    <3>3. \E n \in T : \A m \in T : m <= n BY <1>1, <1>5, <3>2, GreatestNat
    <3>4. \E n \in T : \A m \in T : n >= m BY <3>2, <3>3
    <3>5. Max(T) \in T /\ \A m \in T : Max(T) >= m BY <3>4 DEF Max
    <3>. QED BY <1>1, <1>2, <1>3, <2>2, <3>1, <3>5
  <2>. QED BY <2>1, <2>2
<1>. QED BY <1>4, <1>5

(* A side with the same orders has the same best price.                    *)
LEMMA BestSame ==
  ASSUME NEW O, NEW P, NEW s,
         \A i \in DOMAIN O : O[i].side = s => i \in DOMAIN P /\ P[i].side = s /\ P[i].price = O[i].price,
         \A i \in DOMAIN P : P[i].side = s => i \in DOMAIN O /\ O[i].side = s /\ P[i].price = O[i].price
  PROVE  BestOf(P, s) = BestOf(O, s)
<1>1. PricesOn(P, s) = PricesOn(O, s)
  <2>1. ASSUME NEW p \in PricesOn(P, s) PROVE p \in PricesOn(O, s)
    <3>1. PICK i \in DOMAIN P : P[i].side = s /\ P[i].price = p BY DEF PricesOn
    <3>. QED BY <3>1 DEF PricesOn
  <2>2. ASSUME NEW p \in PricesOn(O, s) PROVE p \in PricesOn(P, s)
    <3>1. PICK i \in DOMAIN O : O[i].side = s /\ O[i].price = p BY DEF PricesOn
    <3>. QED BY <3>1 DEF PricesOn
  <2>. QED BY <2>1, <2>2
<1>. QED BY <1>1, BestIs

-----------------------------------------------------------------------------
(* A trade keeps the sides apart.                                          *)

(* A taker crosses the orders of the other side at its price or better.    *)
LEMMA CrossingFacts ==
  ASSUME NEW O, Open(O), NEW c \in Cmd
  PROVE  \A i \in DOMAIN O : i \in Crossing(O, c) <=>
           \/ c.side = "ask" /\ O[i].side = "bid" /\ O[i].price >= c.price
           \/ c.side = "bid" /\ O[i].side = "ask" /\ O[i].price <= c.price
<1>1. c.side \in {"ask", "bid"} /\ c.price \in Nat BY CmdFields
<1>2. ASSUME NEW i \in DOMAIN O
      PROVE  i \in Crossing(O, c) <=>
               \/ c.side = "ask" /\ O[i].side = "bid" /\ O[i].price >= c.price
               \/ c.side = "bid" /\ O[i].side = "ask" /\ O[i].price <= c.price
  <2>1. O[i].side \in {"ask", "bid"} /\ O[i].price \in Nat BY OrderFields
  <2>2. i \in Crossing(O, c) <=> O[i].side # c.side /\ ~Better(c.side, c.price, O[i].price) BY DEF Crossing
  <2>. QED BY <1>1, <2>1, <2>2 DEF Better
<1>. QED BY <1>2

(* What stays of the taker's order crosses nothing: all orders it crossed  *)
(* were taken whole, or it met an order of its own and nothing stays.      *)
LEMMA AfterUncrossed ==
  ASSUME NEW O, Open(O), Uncrossed(O), NEW c \in Cmd, NEW F, F = Fills(O, c), NEW R, R = Rest(O, c),
         NEW n \in Nat, n \notin DOMAIN O, NEW P, P = OrdersAfter(O, c, F, R, n)
  PROVE  Uncrossed(P)
<1>. SUFFICES ASSUME NEW i \in DOMAIN P, NEW j \in DOMAIN P, P[i].side = "ask", P[j].side = "bid"
              PROVE  P[i].price > P[j].price
  BY DEF Uncrossed
<1>0. c.price \in Nat BY CmdFields
<1>1. \A k \in DOMAIN P : k # n => /\ k \in DOMAIN O /\ P[k].side = O[k].side /\ P[k].price = O[k].price
                                   /\ F[k] # O[k].rest /\ O[k].price \in Nat
  BY AfterFields, OrderFields
<1>2. \A k \in DOMAIN P : k = n => P[k].side = c.side /\ P[k].price = c.price /\ R # 0 BY AfterFields
<1>3. CASE i # n /\ j # n BY <1>1, <1>3 DEF Uncrossed
<1>4. CASE i = n
  <2>1. j # n /\ c.side = "ask" BY <1>2, <1>4
  <2>2. j \notin Crossing(O, c) BY <1>1, <1>2, <1>4, <2>1, RestFacts
  <2>. QED BY <1>0, <1>1, <1>2, <1>4, <2>1, <2>2, CrossingFacts
<1>5. CASE j = n
  <2>1. i # n /\ c.side = "bid" BY <1>2, <1>5
  <2>2. i \notin Crossing(O, c) BY <1>1, <1>2, <1>5, <2>1, RestFacts
  <2>. QED BY <1>0, <1>1, <1>2, <1>5, <2>1, <2>2, CrossingFacts
<1>. QED BY <1>3, <1>4, <1>5

-----------------------------------------------------------------------------
(* The pages of a proof, the best price first.                             *)

Sorted(side, ps, q) ==
  /\ q \in [1..Cardinality(ps) -> ps]
  /\ \A i, j \in DOMAIN q : i < j => Better(side, q[i], q[j])

(* Of finitely many prices one is worse than the others.                   *)
LEMMA WorstExists ==
  ASSUME NEW side, NEW ps, IsFiniteSet(ps), ps \subseteq Nat, ps # {}
  PROVE  \E w \in ps : \A p \in ps \ {w} : Better(side, p, w)
<1>1. CASE side = "ask"
  <2>1. PICK w \in ps : \A p \in ps : w <= p BY LeastNat
  <2>2. \A p \in ps \ {w} : p > w BY <2>1
  <2>. QED BY <1>1, <2>2 DEF Better
<1>2. CASE side # "ask"
  <2>1. PICK w \in ps : \A p \in ps : p <= w BY GreatestNat
  <2>2. \A p \in ps \ {w} : p < w BY <2>1
  <2>. QED BY <1>2, <2>2 DEF Better
<1>. QED BY <1>1, <1>2

(* Finitely many prices can be put in order, the best first.               *)
LEMMA SortedExists ==
  ASSUME NEW side, NEW all, IsFiniteSet(all), all \subseteq Nat
  PROVE  \E q : Sorted(side, all, q)
<1>. DEFINE Can(ps) == \E q : Sorted(side, ps, q)
            Bad == {n \in Nat : \E ps \in SUBSET all : Cardinality(ps) = n /\ ~Can(ps)}
<1>1. Bad = {}
  <2>. SUFFICES ASSUME Bad # {} PROVE FALSE OBVIOUS
  <2>1. PICK n \in Bad : \A m \in Bad : n <= m BY LeastNat
  <2>2. PICK ps \in SUBSET all : Cardinality(ps) = n /\ ~Can(ps) BY <2>1
  <2>3. CASE ps = {}
    <3>1. Cardinality(ps) = 0 BY <2>3, FS_EmptySet
    <3>2. [i \in 1..0 |-> 0] \in [1..0 -> ps] OBVIOUS
    <3>3. Sorted(side, ps, [i \in 1..0 |-> 0]) BY <3>1, <3>2 DEF Sorted
    <3>. QED BY <2>2, <3>3
  <2>4. CASE ps # {}
    <3>1. PICK w \in ps : \A p \in ps \ {w} : Better(side, p, w)
      <4>1. IsFiniteSet(ps) /\ ps \subseteq Nat BY FS_Subset
      <4>. QED BY <2>4, <4>1, WorstExists
    <3>. DEFINE rs == ps \ {w}
    <3>2. rs \in SUBSET all /\ Cardinality(rs) = n - 1 /\ n - 1 \in Nat
      <4>. HIDE DEF Can
      <4>1. Cardinality(ps) \in Nat /\ Cardinality(ps) # 0 BY <2>4, PickSmaller
      <4>2. Cardinality(ps \ {w}) = Cardinality(ps) - 1
        <5>1. IsFiniteSet(ps) /\ w \in ps BY FS_Subset
        <5>. QED BY ONLY <5>1, FS_RemoveElement
      <4>. QED BY <2>2, <4>1, <4>2
    <3>3. Can(rs)
      <4>. HIDE DEF rs, Can
      <4>1. n - 1 \notin Bad BY <2>1, <3>2
      <4>. QED BY <3>2, <4>1
    <3>4. PICK q : Sorted(side, rs, q) BY <3>3
    <3>5. q \in [1..(n - 1) -> rs] /\ \A i, j \in 1..(n - 1) : i < j => Better(side, q[i], q[j])
      BY <3>2, <3>4 DEF Sorted
    <3>. DEFINE h == [i \in 1..n |-> IF i = n THEN w ELSE q[i]]
    <3>6. \A i \in 1..n : i # n => i \in 1..(n - 1) BY <3>2
    <3>7. h \in [1..n -> ps] BY <3>5, <3>6
    <3>8. ASSUME NEW i \in 1..n, NEW j \in 1..n, i < j PROVE Better(side, h[i], h[j])
      <4>1. i # n /\ i \in 1..(n - 1) /\ h[i] = q[i] /\ q[i] \in rs BY <3>5, <3>6, <3>8
      <4>2. CASE j = n BY <3>1, <4>1, <4>2
      <4>3. CASE j # n
        <5>1. j \in 1..(n - 1) /\ h[j] = q[j] BY <3>6, <4>3
        <5>. QED BY <3>5, <3>8, <4>1, <5>1
      <4>. QED BY <4>2, <4>3
    <3>9. Sorted(side, ps, h)
      <4>1. DOMAIN h = 1..n OBVIOUS
      <4>. HIDE DEF h
      <4>. QED BY <2>2, <3>7, <3>8, <4>1 DEF Sorted
    <3>. QED BY <2>2, <3>9
  <2>. QED BY <2>3, <2>4
<1>2. all \in SUBSET all /\ Cardinality(all) \in Nat BY FS_CardinalityType
<1>3. Can(all)
  <2>. HIDE DEF Can
  <2>. QED BY <1>1, <1>2
<1>. QED BY <1>3

Listed(side, ps, q, n) ==
  /\ n \in Nat /\ n = Cardinality(ps) /\ q \in [1..n -> ps]
  /\ \A i, j \in 1..n : i < j => Better(side, q[i], q[j])
  /\ \A p \in ps : \E i \in 1..n : q[i] = p

(* The pages are the prices, each once, and the last is the worst.         *)
LEMMA BestFirstFacts ==
  ASSUME NEW side, NEW ps, IsFiniteSet(ps), ps \subseteq Nat
  PROVE  Listed(side, ps, BestFirst(side, ps), Len(BestFirst(side, ps)))
<1>. DEFINE n == Cardinality(ps)
            q == BestFirst(side, ps)
<1>1. n \in Nat BY FS_CardinalityType
<1>2. Sorted(side, ps, q)
  <2>1. \E z : Sorted(side, ps, z) BY SortedExists
  <2>2. \E z \in [1..n -> ps] : \A i, j \in DOMAIN z : i < j => Better(side, z[i], z[j])
    BY <2>1 DEF Sorted
  <2>3. q \in [1..n -> ps] /\ \A i, j \in DOMAIN q : i < j => Better(side, q[i], q[j])
    BY <2>2 DEF BestFirst
  <2>. QED BY <2>3 DEF Sorted
<1>3. q \in [1..n -> ps] /\ \A i, j \in 1..n : i < j => Better(side, q[i], q[j]) BY <1>2 DEF Sorted
<1>. HIDE DEF n
<1>4. Len(q) = n
  <2>1. q \in Seq(ps) BY <1>1, <1>3
  <2>2. DOMAIN q = 1..Len(q) /\ Len(q) \in Nat BY <2>1
  <2>. QED BY <1>1, <1>3, <2>2
<1>5. q \in Injection(1..n, ps)
  <2>1. ASSUME NEW i \in 1..n, NEW j \in 1..n, q[i] = q[j], i # j PROVE FALSE
    <3>1. q[i] \in Nat BY <1>3
    <3>2. i < j \/ j < i BY <2>1
    <3>. QED BY <1>3, <2>1, <3>1, <3>2 DEF Better
  <2>. QED BY <1>3, <2>1 DEF Injection, IsInjective
<1>6. q \in Surjection(1..n, ps)
  <2>1. Cardinality(1..n) = n BY <1>1, FS_Interval
  <2>. QED BY <1>5, <2>1, FS_Injection DEF n
<1>7. \A p \in ps : \E i \in 1..n : q[i] = p BY <1>6 DEF Surjection
<1>. HIDE DEF q
<1>8. Listed(side, ps, q, Len(q)) BY <1>1, <1>3, <1>4, <1>7 DEF n, Listed
<1>. QED BY <1>8 DEF q

-----------------------------------------------------------------------------
(* A trade: an order c, numbered n, against the open orders O, which it    *)
(* fills by F; R stays of it and P is the book afterwards.                 *)
Trade(O, c, F, R, n, P) ==
  /\ Open(O) /\ Uncrossed(O) /\ c \in Cmd /\ F = Fills(O, c) /\ R = Rest(O, c)
  /\ n \in Nat /\ n \notin DOMAIN O /\ P = OrdersAfter(O, c, F, R, n)

Touched(O, c, F, R) ==
  {O[i].price : i \in Filled(F)} \cup (IF R = 0 THEN {} ELSE {c.price})

(* What can be said of every order in the old and the new book.            *)
LEMMA TradeOrders ==
  ASSUME NEW O, NEW c, NEW F, NEW R, NEW n, NEW P, Trade(O, c, F, R, n, P)
  PROVE  /\ c.side \in {"ask", "bid"} /\ c.price \in Nat \ {0} /\ R \in Nat
         /\ \A i \in DOMAIN O : /\ F[i] \in Nat /\ O[i].price \in Nat \ {0} /\ O[i].rest \in Nat \ {0}
                                /\ O[i].side \in {"ask", "bid"}
         /\ \A m \in Filled(F) : m \in Crossing(O, c) /\ m \in DOMAIN O
         /\ \A m \in Filled(F) : \A i \in DOMAIN O : O[i].price = O[m].price => i \in Crossing(O, c)
         /\ \A m \in Filled(F) : \A i \in Crossing(O, c) :
              Better(c.side, O[i].price, O[m].price) => F[i] = O[i].rest
         /\ R # 0 => \A i \in Crossing(O, c) : F[i] = O[i].rest
<1>. Open(O) /\ Uncrossed(O) /\ c \in Cmd /\ F = Fills(O, c) /\ R = Rest(O, c) BY DEF Trade
<1>1. c.side \in {"ask", "bid"} /\ c.price \in Nat \ {0} /\ R \in Nat BY CmdFields, RestFacts
<1>2. \A i \in DOMAIN O : /\ F[i] \in Nat /\ O[i].price \in Nat \ {0} /\ O[i].rest \in Nat \ {0}
                          /\ O[i].side \in {"ask", "bid"}
  BY FillsFacts, OrderFields
<1>3. \A m \in Filled(F) : m \in Crossing(O, c) /\ m \in DOMAIN O /\ F[m] # 0
  BY FilledFacts, FillsFacts, ReachOrders
<1>4. ASSUME NEW m \in Filled(F), NEW i \in DOMAIN O, O[i].price = O[m].price PROVE i \in Crossing(O, c)
  <2>1. m \in DOMAIN O /\ m \in Crossing(O, c) BY <1>3
  <2>2. /\ c.side = "ask" => O[m].side = "bid" /\ O[m].price >= c.price
        /\ c.side = "bid" => O[m].side = "ask" /\ O[m].price <= c.price
    BY <1>1, <2>1, CrossingFacts
  <2>3. /\ c.side = "ask" => O[i].side # "ask"
        /\ c.side = "bid" => O[i].side # "bid"
    BY <1>2, <1>4, <2>1, <2>2 DEF Uncrossed
  <2>. QED BY <1>1, <1>2, <1>4, <2>2, <2>3, CrossingFacts
<1>5. ASSUME NEW m \in Filled(F), NEW i \in Crossing(O, c), Better(c.side, O[i].price, O[m].price)
      PROVE  F[i] = O[i].rest
  <2>1. i \in Ahead(O, c, m) BY <1>5 DEF Ahead, Before
  <2>. QED BY <1>3, <2>1, FillsFacts
<1>6. R # 0 => \A i \in Crossing(O, c) : F[i] = O[i].rest BY RestFacts
<1>. QED BY <1>1, <1>2, <1>3, <1>4, <1>5, <1>6

(* The prices a trade touches are finitely many, none when nothing was     *)
(* taken and nothing stays, and none is worse than the taker's own.        *)
LEMMA TouchedFacts ==
  ASSUME NEW O, NEW c, NEW F, NEW R, NEW n, NEW P, Trade(O, c, F, R, n, P),
         NEW ps, ps = Touched(O, c, F, R)
  PROVE  /\ ps \subseteq Nat \ {0} /\ ps \subseteq Price /\ IsFiniteSet(ps)
         /\ ps = {} <=> Filled(F) = {} /\ R = 0
         /\ \A p \in ps : ~Better(c.side, c.price, p)
<1>. Open(O) /\ c \in Cmd /\ F = Fills(O, c) /\ R = Rest(O, c) BY DEF Trade
<1>1. Filled(F) \subseteq DOMAIN O BY FilledFacts
<1>2. \A i \in Filled(F) : O[i].price \in Nat \ {0} /\ O[i].price \in Price BY <1>1, OrderFields
<1>3. c.price \in Nat \ {0} /\ c.price \in Price BY CmdFields
<1>4. ps \subseteq Nat \ {0} /\ ps \subseteq Price BY <1>2, <1>3 DEF Touched
<1>5. IsFiniteSet(ps)
  <2>. DEFINE f == [i \in DOMAIN O |-> O[i].price]
  <2>1. IsFiniteSet(Filled(F)) BY <1>1, FS_Subset DEF Open
  <2>2. IsFiniteSet({f[i] : i \in Filled(F)}) BY <2>1, FiniteImage, ZenonT(40)
  <2>3. {f[i] : i \in Filled(F)} = {O[i].price : i \in Filled(F)} BY <1>1
  <2>4. IsFiniteSet({O[i].price : i \in Filled(F)}) BY <2>2, <2>3
  <2>. HIDE DEF f
  <2>5. IsFiniteSet({O[i].price : i \in Filled(F)} \cup {c.price}) BY <2>4, FS_AddElement
  <2>6. ps \in SUBSET ({O[i].price : i \in Filled(F)} \cup {c.price}) BY DEF Touched
  <2>. QED BY <2>5, <2>6, FS_Subset
<1>6. ps = {} <=> Filled(F) = {} /\ R = 0 BY DEF Touched
<1>7. ASSUME NEW p \in ps PROVE ~Better(c.side, c.price, p)
  <2>1. CASE p = c.price BY <1>3, <2>1 DEF Better
  <2>2. CASE p # c.price
    <3>1. PICK i \in Filled(F) : p = O[i].price BY <2>2 DEF Touched
    <3>2. i \in Crossing(O, c) BY TradeOrders
    <3>. QED BY <3>1, <3>2 DEF Crossing
  <2>. QED BY <2>1, <2>2
<1>. QED BY <1>4, <1>5, <1>6, <1>7

(* The last page is the taker's price if part of the order stays; all the  *)
(* orders on the other pages are filled.                                   *)
LEMMA PagesOrder ==
  ASSUME NEW O, NEW c, NEW F, NEW R, NEW n, NEW P, Trade(O, c, F, R, n, P),
         NEW q, q = PagesOf(O, c, F, R), NEW L, L = Len(q)
  PROVE  /\ L \in Nat /\ q \in [1..L -> Touched(O, c, F, R)]
         /\ L = 0 <=> Filled(F) = {} /\ R = 0
         /\ \A i, j \in 1..L : i < j => Better(c.side, q[i], q[j])
         /\ \A p \in Touched(O, c, F, R) : \E i \in 1..L : q[i] = p
         /\ R # 0 => L # 0 /\ q[L] = c.price
         /\ \A k \in 1..(L - 1) : q[k] # q[L] /\ \A i \in DOMAIN O : O[i].price = q[k] => F[i] = O[i].rest
         /\ L # 0 => \A i \in DOMAIN O : F[i] # 0 => O[i].price = q[L] \/ \E k \in 1..(L - 1) : O[i].price = q[k]
<1>. DEFINE ps == Touched(O, c, F, R)
<1>0. Open(O) /\ c \in Cmd /\ F = Fills(O, c) /\ R = Rest(O, c) BY DEF Trade
<1>1. ps \subseteq Nat /\ IsFiniteSet(ps) /\ (ps = {} <=> Filled(F) = {} /\ R = 0) BY TouchedFacts
<1>2. q = BestFirst(c.side, ps) BY DEF PagesOf, Touched
<1>. HIDE DEF ps
<1>3. /\ L \in Nat /\ L = Cardinality(ps) /\ q \in [1..L -> ps]
      /\ \A i, j \in 1..L : i < j => Better(c.side, q[i], q[j])
      /\ \A p \in ps : \E i \in 1..L : q[i] = p
  <2>1. Listed(c.side, ps, BestFirst(c.side, ps), Len(BestFirst(c.side, ps))) BY <1>1, BestFirstFacts
  <2>2. Listed(c.side, ps, q, L) BY <1>2, <2>1
  <2>. QED BY ONLY <2>2 DEF Listed
<1>4. L = 0 <=> Filled(F) = {} /\ R = 0
  <2>1. Cardinality(ps) = 0 <=> ps = {}
    <3>1. IsFiniteSet(ps) BY <1>1
    <3>. QED BY ONLY <3>1, FS_EmptySet
  <2>. QED BY <1>1, <1>3, <2>1
<1>5. ASSUME L # 0 PROVE q[L] \in ps /\ q[L] \in Nat
  <2>1. L \in 1..L BY <1>3, <1>5
  <2>2. q[L] \in ps BY <1>3, <2>1
  <2>. QED BY <1>1, <2>2
<1>6. ASSUME R # 0 PROVE L # 0 /\ q[L] = c.price
  <2>1. L # 0 BY <1>4, <1>6
  <2>2. c.price \in ps BY <1>6 DEF ps, Touched
  <2>3. PICK i \in 1..L : q[i] = c.price BY <1>3, <2>2
  <2>4. ~Better(c.side, c.price, q[L]) BY <1>5, <2>1, TouchedFacts DEF ps
  <2>5. ~(i < L) BY <1>3, <2>1, <2>3, <2>4
  <2>. QED BY <1>3, <2>1, <2>3, <2>5
<1>7. ASSUME NEW k \in 1..(L - 1)
      PROVE  q[k] # q[L] /\ \A i \in DOMAIN O : O[i].price = q[k] => F[i] = O[i].rest
  <2>1. k \in 1..L /\ L \in 1..L /\ k < L /\ L # 0 BY <1>3
  <2>2. Better(c.side, q[k], q[L]) /\ q[k] \in ps /\ q[k] \in Nat BY <1>1, <1>3, <2>1
  <2>3. q[k] # q[L] BY <2>2 DEF Better
  <2>4. PICK m \in Filled(F) : q[k] = O[m].price
    <3>1. ~(R # 0 /\ q[k] = c.price) BY <1>6, <2>3
    <3>. QED BY <2>2, <3>1 DEF ps, Touched
  <2>5. ASSUME NEW i \in DOMAIN O, O[i].price = q[k] PROVE F[i] = O[i].rest
    <3>1. i \in Crossing(O, c) BY <2>4, <2>5, TradeOrders
    <3>2. CASE R # 0 BY <3>1, <3>2, TradeOrders
    <3>3. CASE R = 0
      <4>1. PICK z \in Filled(F) : q[L] = O[z].price BY <1>5, <2>1, <3>3 DEF ps, Touched
      <4>2. Better(c.side, O[i].price, O[z].price) BY <2>2, <2>5, <4>1
      <4>. QED BY <3>1, <4>2, TradeOrders
    <3>. QED BY <3>2, <3>3
  <2>. QED BY <2>3, <2>5
<1>8. ASSUME L # 0, NEW i \in DOMAIN O, F[i] # 0
      PROVE  O[i].price = q[L] \/ \E k \in 1..(L - 1) : O[i].price = q[k]
  <2>1. i \in Filled(F) BY <1>0, <1>8, FilledFacts
  <2>2. O[i].price \in ps BY <2>1 DEF ps, Touched
  <2>3. PICK k \in 1..L : q[k] = O[i].price BY <1>3, <2>2
  <2>4. k = L \/ k \in 1..(L - 1) BY <1>3
  <2>. QED BY <2>3, <2>4
<1>. QED BY <1>3, <1>4, <1>6, <1>7, <1>8 DEF ps

(* What the pages of the old and the new book say of what was taken.       *)
PagesSum(O, q) == SumFunction([k \in 1..(Len(q) - 1) |-> PageOf(O, q[k])])

(* The first pages, taken whole, and the difference of the last one add up *)
(* to what was taken, less what stays of the taker's order.                *)
LEMMA PagesTaken ==
  ASSUME NEW O, NEW c, NEW F, NEW R, NEW n, NEW P, Trade(O, c, F, R, n, P),
         NEW q, q = PagesOf(O, c, F, R), NEW L, L = Len(q), L # 0
  PROVE  PagesSum(O, q) + PageOf(O, q[L]) - PageOf(P, q[L]) = SumFunctionOnSet(F, DOMAIN O) - R
<1>. DEFINE D == DOMAIN O
            M == 1..(L - 1)
            w == [i \in D |-> IF \E k \in M : q[k] = O[i].price
                              THEN CHOOSE k \in M : q[k] = O[i].price ELSE 0]
            x == [i \in D |-> IF \E k \in M : q[k] = O[i].price THEN O[i].rest ELSE 0]
            y == [i \in D |-> IF i \in AtPrice(O, q[L]) THEN F[i] ELSE 0]
<1>0. Open(O) /\ c \in Cmd /\ F = Fills(O, c) /\ R = Rest(O, c) BY DEF Trade
<1>1. /\ L \in Nat /\ \A i, j \in 1..L : i < j => q[i] # q[j]
      /\ \A k \in M : q[k] # q[L] /\ \A i \in D : O[i].price = q[k] => F[i] = O[i].rest
      /\ \A i \in D : F[i] # 0 => O[i].price = q[L] \/ \E k \in M : O[i].price = q[k]
  <2>1. L \in Nat /\ q \in [1..L -> Touched(O, c, F, R)]
        /\ \A i, j \in 1..L : i < j => Better(c.side, q[i], q[j])
    BY PagesOrder
  <2>2. Touched(O, c, F, R) \subseteq Nat BY TouchedFacts
  <2>3. \A i \in 1..L : q[i] \in Nat BY <2>1, <2>2
  <2>4. \A i, j \in 1..L : i < j => q[i] # q[j] BY <2>1, <2>3 DEF Better
  <2>. QED BY <2>1, <2>4, PagesOrder
<1>2. IsFiniteSet(D) /\ IsFiniteSet(M) BY <1>0, <1>1, FS_Interval DEF Open
<1>3. \A i \in D : F[i] \in Nat /\ O[i].rest \in Nat BY TradeOrders
<1>4. \A i \in D : (w[i] \notin M => x[i] = 0) /\ x[i] \in Int BY <1>1, <1>3
<1>5. ASSUME NEW k \in M, NEW i \in D PROVE w[i] = k <=> O[i].price = q[k]
  <2>1. CASE O[i].price = q[k]
    <3>1. w[i] \in M /\ q[w[i]] = q[k] BY <2>1
    <3>2. w[i] \in 1..L /\ k \in 1..L BY <1>1, <3>1
    <3>3. ~(w[i] < k) /\ ~(k < w[i]) BY <1>1, <3>1, <3>2
    <3>. QED BY <2>1, <3>2, <3>3
  <2>2. CASE O[i].price # q[k]
    <3>1. w[i] = k => FALSE
      <4>1. CASE \E j \in M : q[j] = O[i].price
        <5>1. q[w[i]] = O[i].price BY <4>1
        <5>. QED BY <2>2, <5>1
      <4>2. CASE ~ \E j \in M : q[j] = O[i].price
        <5>1. w[i] = 0 /\ k # 0 BY <4>2
        <5>. QED BY <5>1
      <4>. QED BY <4>1, <4>2
    <3>. QED BY <2>2, <3>1
  <2>. QED BY <2>1, <2>2
<1>6. \A k \in M : PageOf(O, q[k]) = SumFunctionOnSet([i \in D |-> IF w[i] = k THEN x[i] ELSE 0], D)
  <2>. SUFFICES ASSUME NEW k \in M
                PROVE PageOf(O, q[k]) = SumFunctionOnSet([i \in D |-> IF w[i] = k THEN x[i] ELSE 0], D)
    OBVIOUS
  <2>1. \A i \in D : (IF w[i] = k THEN x[i] ELSE 0) = IF O[i].price = q[k] THEN O[i].rest ELSE 0
    <3>. SUFFICES ASSUME NEW i \in D
                  PROVE (IF w[i] = k THEN x[i] ELSE 0) = IF O[i].price = q[k] THEN O[i].rest ELSE 0
      OBVIOUS
    <3>1. w[i] = k <=> O[i].price = q[k] BY <1>5
    <3>2. O[i].price = q[k] => x[i] = O[i].rest OBVIOUS
    <3>. HIDE DEF w, x
    <3>. QED BY <3>1, <3>2
  <2>. HIDE DEF w, x
  <2>2. [i \in D |-> IF w[i] = k THEN x[i] ELSE 0] = [i \in D |-> IF O[i].price = q[k] THEN O[i].rest ELSE 0]
    BY <2>1
  <2>. QED BY <2>2 DEF PageOf, SumFunction
<1>7. PagesSum(O, q) = SumFunctionOnSet(x, D)
  <2>. DEFINE g == [k \in M |-> SumFunctionOnSet([i \in D |-> IF w[i] = k THEN x[i] ELSE 0], D)]
  <2>1. [k \in M |-> PageOf(O, q[k])] = g
    <3>. HIDE DEF w, x, D, M
    <3>. QED BY <1>6
  <2>2. PagesSum(O, q) = SumFunctionOnSet(g, M) BY <2>1 DEF PagesSum, SumFunction
  <2>3. SumFunctionOnSet(g, M) = SumFunctionOnSet(x, D)
    <3>. HIDE DEF w, x, D, M
    <3>1. \A i \in D : x[i] \in Int BY <1>4
    <3>2. \A i \in D : w[i] \notin M => x[i] = 0 BY <1>4
    <3>. QED BY <1>2, <3>1, <3>2, SumGroup
  <2>. QED BY <2>2, <2>3
<1>8. ASSUME NEW i \in D PROVE F[i] = x[i] + y[i] /\ y[i] \in Int
  <2>1. y[i] = IF O[i].price = q[L] THEN F[i] ELSE 0 BY DEF AtPrice
  <2>2. CASE \E k \in M : q[k] = O[i].price
    <3>1. x[i] = O[i].rest /\ F[i] = O[i].rest /\ O[i].price # q[L] BY <1>1, <2>2
    <3>. QED BY <1>3, <2>1, <3>1
  <2>3. CASE ~ \E k \in M : q[k] = O[i].price
    <3>1. x[i] = 0 /\ (F[i] # 0 => O[i].price = q[L]) BY <1>1, <2>3
    <3>. HIDE DEF x, y
    <3>. QED BY <1>3, <2>1, <3>1
  <2>. QED BY <2>2, <2>3
<1>9. SumFunctionOnSet(F, D) = SumFunctionOnSet(x, D) + SumFunctionOnSet(y, D)
      /\ SumFunctionOnSet(x, D) \in Int /\ SumFunctionOnSet(y, D) \in Int
  <2>. HIDE DEF x, y, D
  <2>1. \A i \in D : x[i] \in Int BY <1>4
  <2>2. \A i \in D : y[i] \in Int BY <1>8
  <2>3. \A i \in D : F[i] = x[i] + y[i] BY <1>8
  <2>4. SumFunctionOnSet(F, D) = SumFunctionOnSet(x, D) + SumFunctionOnSet(y, D)
    BY ONLY <1>2, <2>1, <2>2, <2>3, SumAdd
  <2>. QED BY <1>2, <2>1, <2>2, <2>4, SumInt
<1>10. SumFunctionOnSet(y, D) = Chosen(F, D, AtPrice(O, q[L])) BY DEF Chosen
<1>11. /\ PageOf(O, q[L]) \in Int
       /\ PageOf(P, q[L]) = PageOf(O, q[L]) - SumFunctionOnSet(y, D) + (IF q[L] = c.price THEN R ELSE 0)
  BY <1>10, AfterPage DEF Trade
<1>12. (IF q[L] = c.price THEN R ELSE 0) = R /\ R \in Nat BY PagesOrder, TradeOrders
<1>. HIDE DEF x, y, w, D, M
<1>13. PagesSum(O, q) + PageOf(O, q[L]) - PageOf(P, q[L]) = SumFunctionOnSet(F, D) - R
  BY ONLY <1>7, <1>9, <1>11, <1>12
<1>. QED BY <1>13 DEF D

(* The pages before the last are empty afterwards.                         *)
LEMMA PagesEmptied ==
  ASSUME NEW O, NEW c, NEW F, NEW R, NEW n, NEW P, Trade(O, c, F, R, n, P),
         NEW q, q = PagesOf(O, c, F, R), NEW L, L = Len(q), NEW k \in 1..(L - 1)
  PROVE  PageOf(P, q[k]) = 0
<1>. DEFINE f == [i \in DOMAIN P |-> IF P[i].price = q[k] THEN P[i].rest ELSE 0]
<1>1. q[k] # q[L] /\ \A i \in DOMAIN O : O[i].price = q[k] => F[i] = O[i].rest BY PagesOrder
<1>2. R # 0 => q[L] = c.price BY PagesOrder
<1>3. \A i \in DOMAIN P : P[i].price # q[k]
  <2>. SUFFICES ASSUME NEW i \in DOMAIN P, P[i].price = q[k] PROVE FALSE OBVIOUS
  <2>1. CASE i = n
    <3>1. R # 0 /\ P[i].price = c.price BY <2>1, AfterFields DEF Trade
    <3>. QED BY <1>1, <1>2, <3>1
  <2>2. CASE i # n
    <3>1. i \in DOMAIN O /\ F[i] # O[i].rest BY <2>2, AfterFields DEF Trade
    <3>2. P[i].price = O[i].price BY <3>1, AfterFields DEF Trade
    <3>. QED BY <1>1, <3>1, <3>2
  <2>. QED BY <2>1, <2>2
<1>4. IsFiniteSet(DOMAIN P) BY AfterFields DEF Trade, Open
<1>5. \A i \in DOMAIN P : f[i] = 0 BY <1>3
<1>6. SumFunctionOnSet(f, DOMAIN P) = 0
  <2>. HIDE DEF f
  <2>. QED BY <1>4, <1>5, SumZero
<1>. QED BY <1>6 DEF PageOf, SumFunction

(* If something was taken, only what stays of the order is on its page.    *)
LEMMA PageOfRest ==
  ASSUME NEW O, NEW c, NEW F, NEW R, NEW n, NEW P, Trade(O, c, F, R, n, P),
         Filled(F) # {}, R # 0
  PROVE  PageOf(P, c.price) = R
<1>. DEFINE f == [i \in DOMAIN P |-> IF P[i].price = c.price THEN P[i].rest ELSE 0]
<1>0. Open(O) /\ Uncrossed(O) /\ c \in Cmd BY DEF Trade
<1>1. n \in DOMAIN P /\ P[n].price = c.price /\ P[n].rest = R /\ R \in Int BY AfterFields, TradeOrders DEF Trade
<1>2. PICK m \in Filled(F) : TRUE OBVIOUS
<1>3. ASSUME NEW i \in DOMAIN P, i # n, P[i].price = c.price PROVE FALSE
  <2>1. i \in DOMAIN O /\ F[i] # O[i].rest BY <1>3, AfterFields DEF Trade
  <2>2. O[i].price = c.price BY <1>3, <2>1, AfterFields DEF Trade
  <2>3. i \notin Crossing(O, c) BY <2>1, TradeOrders
  <2>4. c.side \in {"ask", "bid"} /\ c.price \in Nat /\ O[i].side \in {"ask", "bid"} BY <2>1, TradeOrders
  <2>5. O[i].side = c.side BY <1>0, <2>1, <2>2, <2>3, <2>4, CrossingFacts
  <2>6. m \in DOMAIN O /\ m \in Crossing(O, c) /\ O[m].price \in Nat BY TradeOrders
  <2>7. CASE c.side = "ask"
    <3>1. O[m].side = "bid" /\ O[m].price >= c.price BY <1>0, <2>6, <2>7, CrossingFacts
    <3>2. O[i].price > O[m].price BY <1>0, <2>1, <2>5, <2>6, <2>7, <3>1 DEF Uncrossed
    <3>. QED BY <2>2, <2>4, <2>6, <3>1, <3>2
  <2>8. CASE c.side = "bid"
    <3>1. O[m].side = "ask" /\ O[m].price <= c.price BY <1>0, <2>6, <2>8, CrossingFacts
    <3>2. O[m].price > O[i].price BY <1>0, <2>1, <2>5, <2>6, <2>8, <3>1 DEF Uncrossed
    <3>. QED BY <2>2, <2>4, <2>6, <3>1, <3>2
  <2>. QED BY <2>4, <2>7, <2>8
<1>4. IsFiniteSet(DOMAIN P) BY AfterFields DEF Trade, Open
<1>5. (\A i \in DOMAIN P \ {n} : f[i] = 0) /\ f[n] = R BY <1>1, <1>3
<1>6. SumFunctionOnSet(f, DOMAIN P) = R
  <2>. HIDE DEF f
  <2>. QED BY <1>1, <1>4, <1>5, SumOne
<1>. QED BY <1>6 DEF PageOf, SumFunction

(* Best prices and pages, when something was taken.                        *)
LEMMA BestOfTaken ==
  ASSUME NEW O, NEW c, NEW F, NEW R, NEW n, NEW P, Trade(O, c, F, R, n, P), Filled(F) # {},
         NEW q, q = PagesOf(O, c, F, R), NEW L, L = Len(q)
  PROVE  /\ L # 0 /\ L \in Nat
         /\ c.side = "ask" => /\ c.price <= BestOf(O, "bid")
                              /\ \A k \in 1..L : q[k] \in Nat /\ q[k] <= BestOf(O, "bid")
                              /\ q[L] >= BestOf(P, "bid")
         /\ c.side = "bid" => /\ c.price >= BestOf(O, "ask")
                              /\ \A k \in 1..L : q[k] \in Nat /\ q[k] >= BestOf(O, "ask")
         /\ R # 0 => BestOf(P, c.side) = c.price
<1>0. Open(O) /\ Uncrossed(O) /\ c \in Cmd BY DEF Trade
<1>1. L # 0 /\ L \in Nat /\ q \in [1..L -> Touched(O, c, F, R)] BY PagesOrder
<1>2. PICK m \in Filled(F) : m \in DOMAIN O /\ m \in Crossing(O, c) BY TradeOrders
<1>3. \A p \in Touched(O, c, F, R) : p = c.price \/ \E i \in Filled(F) : p = O[i].price BY DEF Touched
<1>4. \A i \in Filled(F) : i \in DOMAIN O /\ i \in Crossing(O, c) BY TradeOrders
<1>5. /\ c.side \in {"ask", "bid"} /\ c.price \in Nat \ {0} /\ R \in Nat
      /\ \A i \in DOMAIN O : O[i].price \in Nat \ {0} /\ O[i].side \in {"ask", "bid"}
  BY TradeOrders
<1>6. BestOf(O, "ask") \in Nat /\ BestOf(O, "bid") \in Nat BY <1>0, BestFacts
<1>7. Open(P) /\ BestOf(P, "ask") \in Nat /\ BestOf(P, "bid") \in Nat
  <2>1. Open(P) BY AfterFields DEF Trade
  <2>. QED BY <2>1, BestFacts
<1>8. CASE c.side = "ask"
  <2>1. \A i \in DOMAIN O : O[i].side = "bid" => O[i].price <= BestOf(O, "bid") BY <1>0, <1>5, <1>6, BestFacts
  <2>2. \A i \in Crossing(O, c) : i \in DOMAIN O => O[i].side = "bid" /\ O[i].price >= c.price
    BY <1>0, <1>8, CrossingFacts
  <2>3. O[m].price <= BestOf(O, "bid") /\ c.price <= O[m].price /\ O[m].price \in Nat BY <1>2, <1>5, <2>1, <2>2
  <2>4. c.price <= BestOf(O, "bid") BY <1>5, <1>6, <2>3
  <2>5. ASSUME NEW k \in 1..L PROVE q[k] \in Nat /\ q[k] <= BestOf(O, "bid") /\ q[k] >= c.price
    <3>1. q[k] \in Touched(O, c, F, R) BY <1>1
    <3>2. CASE q[k] = c.price BY <1>5, <2>4, <3>2
    <3>3. CASE \E i \in Filled(F) : q[k] = O[i].price BY <1>4, <1>5, <2>1, <2>2, <3>3
    <3>. QED BY <1>3, <3>1, <3>2, <3>3
  <2>6. q[L] \in Nat /\ q[L] >= c.price BY <1>1, <2>5
  <2>7. q[L] >= BestOf(P, "bid")
    <3>. SUFFICES ASSUME BestOf(P, "bid") # 0, q[L] < BestOf(P, "bid") PROVE FALSE BY <1>7, <2>6
    <3>1. PICK j \in DOMAIN P : P[j].side = "bid" /\ P[j].price = BestOf(P, "bid") BY <1>7, BestFacts
    <3>2. j # n BY <1>8, <3>1, AfterFields DEF Trade
    <3>3. j \in DOMAIN O /\ F[j] # O[j].rest BY <3>2, AfterFields DEF Trade
    <3>4. O[j].side = "bid" /\ O[j].price = BestOf(P, "bid") BY <3>1, <3>3, AfterFields DEF Trade
    <3>5. j \in Crossing(O, c) BY <1>0, <1>5, <1>7, <1>8, <2>6, <3>3, <3>4, CrossingFacts
    <3>6. R = 0 BY <3>3, <3>5, TradeOrders
    <3>7. q[L] \in Touched(O, c, F, R) BY <1>1
    <3>8. PICK z \in Filled(F) : q[L] = O[z].price BY <3>6, <3>7 DEF Touched
    <3>9. Better(c.side, O[j].price, O[z].price) BY <1>8, <3>4, <3>8 DEF Better
    <3>. QED BY <3>3, <3>5, <3>9, TradeOrders
  <2>8. ASSUME R # 0 PROVE BestOf(P, "ask") = c.price
    <3>1. n \in DOMAIN P /\ P[n].side = "ask" /\ P[n].price = c.price BY <1>8, <2>8, AfterFields DEF Trade
    <3>2. BestOf(P, "ask") # 0 /\ BestOf(P, "ask") <= c.price BY <1>7, <3>1, BestFacts
    <3>3. PICK j \in DOMAIN P : P[j].side = "ask" /\ P[j].price = BestOf(P, "ask") BY <1>7, <3>2, BestFacts
    <3>4. CASE j = n BY <3>1, <3>3, <3>4
    <3>5. CASE j # n
      <4>1. j \in DOMAIN O /\ F[j] # O[j].rest BY <3>5, AfterFields DEF Trade
      <4>2. O[j].side = "ask" /\ O[j].price = BestOf(P, "ask") BY <3>3, <4>1, AfterFields DEF Trade
      <4>3. O[j].price > O[m].price BY <1>0, <1>2, <2>2, <4>1, <4>2 DEF Uncrossed
      <4>. QED BY <1>5, <1>7, <2>3, <3>2, <4>2, <4>3
    <3>. QED BY <3>4, <3>5
  <2>. QED BY <1>1, <1>8, <2>4, <2>5, <2>7, <2>8
<1>9. CASE c.side = "bid"
  <2>1. \A i \in DOMAIN O : O[i].side = "ask" => O[i].price >= BestOf(O, "ask") BY <1>0, <1>5, <1>6, BestFacts
  <2>2. \A i \in Crossing(O, c) : i \in DOMAIN O => O[i].side = "ask" /\ O[i].price <= c.price
    BY <1>0, <1>9, CrossingFacts
  <2>3. O[m].price >= BestOf(O, "ask") /\ c.price >= O[m].price /\ O[m].price \in Nat BY <1>2, <1>5, <2>1, <2>2
  <2>4. c.price >= BestOf(O, "ask") BY <1>5, <1>6, <2>3
  <2>5. ASSUME NEW k \in 1..L PROVE q[k] \in Nat /\ q[k] >= BestOf(O, "ask")
    <3>1. q[k] \in Touched(O, c, F, R) BY <1>1
    <3>2. CASE q[k] = c.price BY <1>5, <2>4, <3>2
    <3>3. CASE \E i \in Filled(F) : q[k] = O[i].price BY <1>4, <1>5, <2>1, <2>2, <3>3
    <3>. QED BY <1>3, <3>1, <3>2, <3>3
  <2>8. ASSUME R # 0 PROVE BestOf(P, "bid") = c.price
    <3>1. n \in DOMAIN P /\ P[n].side = "bid" /\ P[n].price = c.price BY <1>9, <2>8, AfterFields DEF Trade
    <3>2. BestOf(P, "bid") # 0 /\ BestOf(P, "bid") >= c.price BY <1>7, <3>1, BestFacts
    <3>3. PICK j \in DOMAIN P : P[j].side = "bid" /\ P[j].price = BestOf(P, "bid") BY <1>7, <3>2, BestFacts
    <3>4. CASE j = n BY <3>1, <3>3, <3>4
    <3>5. CASE j # n
      <4>1. j \in DOMAIN O /\ F[j] # O[j].rest BY <3>5, AfterFields DEF Trade
      <4>2. O[j].side = "bid" /\ O[j].price = BestOf(P, "bid") BY <3>3, <4>1, AfterFields DEF Trade
      <4>3. O[m].price > O[j].price BY <1>0, <1>2, <2>2, <4>1, <4>2 DEF Uncrossed
      <4>. QED BY <1>5, <1>7, <2>3, <3>2, <4>2, <4>3
    <3>. QED BY <3>4, <3>5
  <2>. QED BY <1>1, <1>9, <2>4, <2>5, <2>8
<1>. QED BY <1>5, <1>8, <1>9

(* A side a trade leaves alone keeps its best price.                       *)
LEMMA BestKept ==
  ASSUME NEW O, NEW c, NEW F, NEW R, NEW n, NEW P, Trade(O, c, F, R, n, P)
  PROVE  /\ R = 0 => BestOf(P, c.side) = BestOf(O, c.side)
         /\ Filled(F) = {} => BestOf(P, OtherSide(c.side)) = BestOf(O, OtherSide(c.side))
<1>0. Open(O) /\ c \in Cmd /\ F = Fills(O, c) /\ R = Rest(O, c) BY DEF Trade
<1>1. /\ c.side \in {"ask", "bid"}
      /\ \A i \in DOMAIN O : F[i] \in Nat /\ O[i].rest \in Nat \ {0} /\ O[i].side \in {"ask", "bid"}
  BY TradeOrders
<1>2. \A i \in DOMAIN O : F[i] # 0 => O[i].side # c.side
  <2>1. \A i \in DOMAIN O : F[i] # 0 => i \in Crossing(O, c) BY <1>0, FillsFacts, ReachOrders
  <2>. QED BY <2>1 DEF Crossing
<1>3. \A i \in DOMAIN P : i # n => i \in DOMAIN O /\ P[i].side = O[i].side /\ P[i].price = O[i].price
  <2>1. \A i \in DOMAIN P : i # n => i \in DOMAIN O /\ F[i] # O[i].rest BY AfterFields DEF Trade
  <2>. QED BY <2>1, AfterFields DEF Trade
<1>4. \A i \in DOMAIN O : F[i] = 0 => i \in DOMAIN P /\ P[i].side = O[i].side /\ P[i].price = O[i].price
  <2>1. \A i \in DOMAIN O : F[i] = 0 => F[i] # O[i].rest BY <1>1
  <2>. QED BY <2>1, AfterFields DEF Trade
<1>5. ASSUME R = 0 PROVE BestOf(P, c.side) = BestOf(O, c.side)
  <2>1. n \notin DOMAIN P BY <1>5, AfterFields DEF Trade
  <2>2. \A i \in DOMAIN O : O[i].side = c.side => i \in DOMAIN P /\ P[i].side = c.side /\ P[i].price = O[i].price
    BY <1>2, <1>4
  <2>3. \A i \in DOMAIN P : P[i].side = c.side => i \in DOMAIN O /\ O[i].side = c.side /\ P[i].price = O[i].price
    BY <1>3, <2>1
  <2>. QED BY <2>2, <2>3, BestSame
<1>6. ASSUME Filled(F) = {} PROVE BestOf(P, OtherSide(c.side)) = BestOf(O, OtherSide(c.side))
  <2>. DEFINE s == OtherSide(c.side)
  <2>1. s # c.side BY <1>1 DEF OtherSide
  <2>2. \A i \in DOMAIN O : F[i] = 0 BY <1>0, <1>6, FilledFacts
  <2>3. n \in DOMAIN P => P[n].side = c.side BY AfterFields DEF Trade
  <2>. HIDE DEF s
  <2>4. \A i \in DOMAIN O : O[i].side = s => i \in DOMAIN P /\ P[i].side = s /\ P[i].price = O[i].price
    BY <1>4, <2>2
  <2>5. \A i \in DOMAIN P : P[i].side = s => i \in DOMAIN O /\ O[i].side = s /\ P[i].price = O[i].price
    BY <1>3, <2>1, <2>3
  <2>6. BestOf(P, s) = BestOf(O, s) BY <2>4, <2>5, BestSame
  <2>. QED BY <2>6 DEF s
<1>. QED BY <1>5, <1>6

(* When nothing was taken, the order rests on one page, behind the market. *)
LEMMA NothingTaken ==
  ASSUME NEW O, NEW c, NEW F, NEW R, NEW n, NEW P, Trade(O, c, F, R, n, P), Filled(F) = {}, R # 0,
         NEW q, q = PagesOf(O, c, F, R), NEW L, L = Len(q)
  PROVE  /\ L = 1 /\ q[L] = c.price /\ R = c.amount
         /\ PageOf(P, c.price) - PageOf(O, c.price) = c.amount
         /\ c.side = "ask" => c.price > BestOf(P, "bid")
<1>0. Open(O) /\ c \in Cmd /\ F = Fills(O, c) /\ R = Rest(O, c) BY DEF Trade
<1>1. L # 0 /\ L \in Nat /\ q[L] = c.price /\ q \in [1..L -> Touched(O, c, F, R)] BY PagesOrder
<1>2. Touched(O, c, F, R) = {c.price} BY DEF Touched
<1>3. L = 1
  <2>. SUFFICES ASSUME L # 1 PROVE FALSE OBVIOUS
  <2>1. 1 \in 1..(L - 1) /\ 1 \in 1..L BY <1>1
  <2>2. q[1] # q[L] BY <2>1, PagesOrder
  <2>. QED BY <1>1, <1>2, <2>1, <2>2
<1>4. SumFunctionOnSet(F, DOMAIN O) = 0 BY <1>0, FilledFacts
<1>5. R = c.amount /\ R \in Nat
  <2>1. R \in Nat /\ SumFunctionOnSet(F, DOMAIN O) + R = c.amount BY <1>0, RestFacts
  <2>. QED BY <1>4, <2>1
<1>6. PageOf(O, c.price) \in Int
      /\ PageOf(P, c.price) = PageOf(O, c.price) - Chosen(F, DOMAIN O, AtPrice(O, c.price)) + R
  BY AfterPage DEF Trade
<1>7. Chosen(F, DOMAIN O, AtPrice(O, c.price)) = 0
  <2>. DEFINE g == [i \in DOMAIN O |-> IF i \in AtPrice(O, c.price) THEN F[i] ELSE 0]
  <2>1. \A i \in DOMAIN O : g[i] = 0 BY <1>0, FilledFacts
  <2>. HIDE DEF g
  <2>2. SumFunctionOnSet(g, DOMAIN O) = 0 BY <1>0, <2>1, SumZero DEF Open
  <2>. QED BY <2>2 DEF g, Chosen
<1>8. ASSUME c.side = "ask" PROVE c.price > BestOf(P, "bid")
  <2>1. Open(P) BY AfterFields DEF Trade
  <2>2. BestOf(P, "bid") \in Nat /\ c.price \in Nat \ {0} BY <2>1, BestFacts, TradeOrders
  <2>. SUFFICES ASSUME BestOf(P, "bid") # 0, BestOf(P, "bid") >= c.price PROVE FALSE BY <2>2
  <2>3. PICK j \in DOMAIN P : P[j].side = "bid" /\ P[j].price = BestOf(P, "bid") BY <2>1, BestFacts
  <2>4. j # n BY <1>8, <2>3, AfterFields DEF Trade
  <2>5. j \in DOMAIN O /\ F[j] # O[j].rest BY <2>4, AfterFields DEF Trade
  <2>6. O[j].side = "bid" /\ O[j].price = BestOf(P, "bid") BY <2>3, <2>5, AfterFields DEF Trade
  <2>7. j \in Crossing(O, c) BY <1>0, <1>8, <2>5, <2>6, CrossingFacts
  <2>. QED BY <2>5, <2>7, TradeOrders
<1>9. PageOf(P, c.price) - PageOf(O, c.price) = c.amount BY <1>5, <1>6, <1>7
<1>. QED BY <1>1, <1>3, <1>5, <1>8, <1>9

-----------------------------------------------------------------------------
(* Accounts.                                                               *)

PaidOf(O, c, F) == [i \in DOMAIN O |-> Paid(c.side, F[i], O[i].price)]
GotOf(O, c, F) == [i \in DOMAIN O |-> Got(c.side, F[i], O[i].price)]
TotalPaid(O, c, F) == SumFunctionOnSet(PaidOf(O, c, F), DOMAIN O)
TotalGot(O, c, F) == SumFunctionOnSet(GotOf(O, c, F), DOMAIN O)

Received(O, c, F, u) ==
  SumFunctionOnSet([i \in DOMAIN O |->
    IF O[i].who = u THEN PaidOf(O, c, F)[i] - Charge(O, c, F, i) ELSE 0], DOMAIN O)
Given(O, c, F, u) ==
  SumFunctionOnSet([i \in DOMAIN O |-> IF O[i].who = u THEN GotOf(O, c, F)[i] ELSE 0], DOMAIN O)
Makers(O, F) == {O[i].who : i \in Filled(F)}

(* A product rounded up is a natural number, and zero for zero.            *)
LEMMA MulCeilType ==
  ASSUME NEW rate \in Nat, NEW x \in Nat
  PROVE  mul_ceil(rate, x) \in Nat /\ (x = 0 => mul_ceil(rate, x) = 0)
<1>1. Parts \in Nat \ {0} BY ClearingAssumption
<1>2. rate * x \in Nat BY MulLaws
<1>. DEFINE y == rate * x
<1>3. y + Parts - 1 \in Nat BY <1>1, <1>2
<1>4. mul_ceil(rate, x) \in Nat
  <2>. DEFINE z == y + Parts - 1
  <2>1. mul_ceil(rate, x) = z \div Parts BY DEF mul_ceil
  <2>. HIDE DEF z
  <2>2. z \in Nat BY <1>3 DEF z
  <2>3. z \div Parts \in 0..z BY <1>1, <2>2, DivMod
  <2>. QED BY <2>1, <2>2, <2>3
<1>5. ASSUME x = 0 PROVE mul_ceil(rate, x) = 0
  <2>1. y = 0 BY <1>5
  <2>2. mul_ceil(rate, x) = (0 + Parts - 1) \div Parts BY <2>1 DEF mul_ceil
  <2>. DEFINE z == 0 + Parts - 1
  <2>3. z \in Nat /\ z < Parts BY <1>1
  <2>. HIDE DEF z
  <2>4. z = Parts * (z \div Parts) + (z % Parts) /\ z \div Parts \in Nat /\ z % Parts \in Nat
    BY <1>1, <2>3, DivMod
  <2>5. z \div Parts = 0
    <3>. DEFINE d == z \div Parts
    <3>. SUFFICES ASSUME d # 0 PROVE FALSE OBVIOUS
    <3>. HIDE DEF d
    <3>1. d \in Nat /\ d >= 1 /\ z >= Parts * d BY <1>1, <2>4 DEF d
    <3>2. Parts * 1 <= Parts * d BY <1>1, <3>1, MulMono
    <3>. QED BY <1>1, <2>3, <3>1, <3>2
  <2>. QED BY <2>2, <2>5 DEF z
<1>. QED BY <1>4, <1>5

(* What is paid and got for an order: nothing, if nothing is taken.        *)
LEMMA PaidFacts ==
  ASSUME NEW O, Open(O), NEW c \in Cmd, NEW F, F = Fills(O, c)
  PROVE  /\ \A i \in DOMAIN O : /\ PaidOf(O, c, F)[i] \in Nat /\ GotOf(O, c, F)[i] \in Nat
                                /\ F[i] = 0 => PaidOf(O, c, F)[i] = 0 /\ GotOf(O, c, F)[i] = 0
         /\ TotalPaid(O, c, F) \in Nat /\ TotalGot(O, c, F) \in Nat
         /\ \A S \in SUBSET DOMAIN O : /\ PaidTo(O, c, F, S) = SumFunctionOnSet(PaidOf(O, c, F), S)
                                       /\ PaidTo(O, c, F, S) \in Nat
<1>. DEFINE f == PaidOf(O, c, F)  g == GotOf(O, c, F)
<1>1. IsFiniteSet(DOMAIN O) BY DEF Open
<1>2. ASSUME NEW i \in DOMAIN O
      PROVE  f[i] \in Nat /\ g[i] \in Nat /\ (F[i] = 0 => f[i] = 0 /\ g[i] = 0)
  <2>1. F[i] \in Nat /\ O[i].price \in Nat BY FillsFacts, OrderFields
  <2>2. F[i] * O[i].price \in Nat BY <2>1, MulLaws
  <2>3. F[i] = 0 => F[i] * O[i].price = 0 BY <2>1
  <2>4. f[i] = (IF c.side = "ask" THEN F[i] ELSE F[i] * O[i].price) BY DEF PaidOf, Paid
  <2>5. g[i] = (IF c.side = "ask" THEN F[i] * O[i].price ELSE F[i]) BY DEF GotOf, Got
  <2>. QED BY <2>1, <2>2, <2>3, <2>4, <2>5
<1>. HIDE DEF f, g
<1>3. SumFunctionOnSet(f, DOMAIN O) \in Nat /\ SumFunctionOnSet(g, DOMAIN O) \in Nat BY <1>1, <1>2, SumNat
<1>4. ASSUME NEW S \in SUBSET DOMAIN O
      PROVE  PaidTo(O, c, F, S) = SumFunctionOnSet(f, S) /\ PaidTo(O, c, F, S) \in Nat
  <2>. DEFINE h == [i \in S |-> Paid(c.side, F[i], O[i].price)]
  <2>1. \A i \in S : f[i] \in Nat /\ f[i] \in Int /\ h[i] = f[i] BY <1>2 DEF f, PaidOf
  <2>2. IsFiniteSet(S) BY <1>1, FS_Subset
  <2>3. PaidTo(O, c, F, S) = SumFunctionOnSet(h, S) BY DEF PaidTo, SumFunction
  <2>. HIDE DEF h
  <2>4. SumFunctionOnSet(h, S) = SumFunctionOnSet(f, S) BY <2>1, <2>2, SumAgree
  <2>5. SumFunctionOnSet(f, S) \in Nat BY <2>1, <2>2, SumNat
  <2>. QED BY <2>3, <2>4, <2>5
<1>. QED BY <1>2, <1>3, <1>4 DEF f, g, TotalPaid, TotalGot

(* The makers' charges are the fee of the whole trade, rounded up once.    *)
LEMMA ChargesTotal ==
  ASSUME NEW O, Open(O), NEW c \in Cmd, NEW F, F = Fills(O, c),
         NEW ch, ch = [i \in DOMAIN O |-> Charge(O, c, F, i)]
  PROVE  /\ \A i \in DOMAIN O : ch[i] \in Int /\ (F[i] = 0 => ch[i] = 0)
         /\ SumFunctionOnSet(ch, DOMAIN O) = mul_ceil(c.maker_fee, TotalPaid(O, c, F))
<1>. DEFINE D == DOMAIN O
            C == Crossing(O, c)
            A == [i \in C |-> Ahead(O, c, i)]
            f == PaidOf(O, c, F)
            G == [r \in SUBSET C |-> mul_ceil(c.maker_fee, SumFunctionOnSet(f, r))]
<1>1. c.maker_fee \in Nat BY CmdFields
<1>2. IsFiniteSet(D) /\ IsFiniteSet(C) /\ C \subseteq D BY AheadOrders DEF Open
<1>3. \A i \in D : f[i] \in Nat /\ (F[i] = 0 => f[i] = 0) BY PaidFacts
<1>4. \A i : Ahead(O, c, i) \subseteq C BY AheadOrders
<1>5. \A S \in SUBSET D : PaidTo(O, c, F, S) = SumFunctionOnSet(f, S) /\ SumFunctionOnSet(f, S) \in Nat
  BY PaidFacts
<1>. HIDE DEF f, C, D
<1>6. \A r \in SUBSET C : G[r] \in Int
  <2>. SUFFICES ASSUME NEW r \in SUBSET C PROVE mul_ceil(c.maker_fee, SumFunctionOnSet(f, r)) \in Int
    OBVIOUS
  <2>1. SumFunctionOnSet(f, r) \in Nat BY <1>2, <1>5
  <2>2. mul_ceil(c.maker_fee, SumFunctionOnSet(f, r)) \in Nat BY <1>1, <2>1, MulCeilType
  <2>. QED BY <2>2
<1>7. G \in [SUBSET C -> Int]
  <2>1. \A r \in SUBSET C : mul_ceil(c.maker_fee, SumFunctionOnSet(f, r)) \in Int BY <1>6
  <2>. QED BY <2>1
<1>8. InOrder(C, A)
  <2>1. A \in [C -> SUBSET C] BY <1>4
  <2>2. \A i \in C : A[i] = Ahead(O, c, i) OBVIOUS
  <2>. HIDE DEF A
  <2>3. \A i \in C : i \notin A[i] BY <2>2, AheadOrders DEF C
  <2>4. \A i \in C : \A j \in A[i] : A[j] \subseteq A[i]
    <3>. SUFFICES ASSUME NEW i \in C, NEW j \in A[i] PROVE A[j] \subseteq A[i] OBVIOUS
    <3>1. j \in C /\ j \in Ahead(O, c, i) BY <1>4, <2>2
    <3>2. Ahead(O, c, j) \subseteq Ahead(O, c, i) BY <3>1, AheadOrders DEF C
    <3>. QED BY <2>2, <3>1, <3>2
  <2>5. \A i, j \in C : i = j \/ i \in A[j] \/ j \in A[i]
    <3>. SUFFICES ASSUME NEW i \in C, NEW j \in C PROVE i = j \/ i \in A[j] \/ j \in A[i] OBVIOUS
    <3>. QED BY <2>2, AheadOrders DEF C
  <2>. QED BY <1>2, <2>1, <2>3, <2>4, <2>5 DEF InOrder
<1>9. ASSUME NEW i \in D
      PROVE  /\ ch[i] \in Int
             /\ ch[i] = mul_ceil(c.maker_fee, SumFunctionOnSet(f, Ahead(O, c, i) \cup {i}))
                          - mul_ceil(c.maker_fee, SumFunctionOnSet(f, Ahead(O, c, i)))
             /\ F[i] = 0 => ch[i] = 0
  <2>. DEFINE S == Ahead(O, c, i)  U == S \cup {i}
  <2>1. S \in SUBSET D /\ U \in SUBSET D BY <1>2, <1>4
  <2>2. ch[i] = mul_ceil(c.maker_fee, SumFunctionOnSet(f, U)) - mul_ceil(c.maker_fee, SumFunctionOnSet(f, S))
    BY <1>5, <2>1 DEF Charge, D
  <2>3. mul_ceil(c.maker_fee, SumFunctionOnSet(f, U)) \in Nat /\ mul_ceil(c.maker_fee, SumFunctionOnSet(f, S)) \in Nat
    BY <1>1, <1>5, <2>1, MulCeilType
  <2>4. ASSUME F[i] = 0 PROVE ch[i] = 0
    <3>1. IsFiniteSet(U) /\ \A k \in U : f[k] \in Int BY <1>2, <1>3, <2>1, FS_Subset
    <3>2. \A k \in U \ S : f[k] = 0 BY <1>3, <2>4
    <3>3. S \in SUBSET U OBVIOUS
    <3>. HIDE DEF S, U
    <3>4. SumFunctionOnSet(f, U) = SumFunctionOnSet(f, S) BY <3>1, <3>2, <3>3, SumExtend
    <3>. QED BY <2>2, <2>3, <3>4
  <2>. QED BY <2>2, <2>3, <2>4
<1>10. AddsUp(C, A, G, ch)
  <2>. SUFFICES ASSUME NEW i \in C PROVE ch[i] = G[A[i] \cup {i}] - G[A[i]] BY DEF AddsUp
  <2>1. A[i] = Ahead(O, c, i) /\ A[i] \in SUBSET C /\ A[i] \cup {i} \in SUBSET C BY <1>4
  <2>. HIDE DEF A
  <2>. QED BY <1>2, <1>9, <2>1
<1>11. SumFunctionOnSet(ch, C) = G[C] - G[{}]
  <2>. HIDE DEF G, A
  <2>. QED BY <1>7, <1>8, <1>10, Telescope
<1>12. G[{}] = 0
  <2>1. SumFunctionOnSet(f, {}) = 0 BY SumEmpty
  <2>2. G[{}] = mul_ceil(c.maker_fee, 0) BY <2>1
  <2>. QED BY <1>1, <2>2, MulCeilType
<1>13. G[C] = mul_ceil(c.maker_fee, SumFunctionOnSet(f, C)) /\ G[C] \in Int
  <2>1. C \in SUBSET C OBVIOUS
  <2>. QED BY <1>6, <2>1
<1>14. \A i \in D \ C : ch[i] = 0 /\ f[i] = 0
  <2>1. \A i \in D : F[i] # 0 => i \in C BY FillsFacts, ReachOrders DEF C, D
  <2>. QED BY <1>3, <1>9, <2>1
<1>15. SumFunctionOnSet(ch, D) = SumFunctionOnSet(ch, C) /\ SumFunctionOnSet(f, D) = SumFunctionOnSet(f, C)
  <2>1. C \in SUBSET D BY <1>2
  <2>2. \A i \in D : f[i] \in Int BY <1>3
  <2>3. \A i \in D : ch[i] \in Int BY <1>9
  <2>4. SumFunctionOnSet(f, D) = SumFunctionOnSet(f, C) BY ONLY <1>2, <1>14, <2>1, <2>2, SumExtend
  <2>5. SumFunctionOnSet(ch, D) = SumFunctionOnSet(ch, C) BY ONLY <1>2, <1>14, <2>1, <2>3, SumExtend
  <2>. QED BY <2>4, <2>5
<1>. HIDE DEF G, A
<1>16. SumFunctionOnSet(ch, D) = mul_ceil(c.maker_fee, SumFunctionOnSet(f, D))
  BY <1>11, <1>12, <1>13, <1>15
<1>17. \A i \in D : ch[i] \in Int /\ (F[i] = 0 => ch[i] = 0) BY <1>9
<1>. QED BY <1>16, <1>17 DEF TotalPaid, D, f

(* The makers are others than the taker; together they receive what is     *)
(* paid less the fee, and give what is got.                                *)
LEMMA MakersFacts ==
  ASSUME NEW O, Open(O), NEW c \in Cmd, NEW F, F = Fills(O, c), NEW M, M = Makers(O, F)
  PROVE  /\ IsFiniteSet(M) /\ M \subseteq User /\ c.who \notin M /\ (M = {} <=> Filled(F) = {})
         /\ \A u : Received(O, c, F, u) \in Int /\ Given(O, c, F, u) \in Int
         /\ \A u : u \notin M => Received(O, c, F, u) = 0 /\ Given(O, c, F, u) = 0
         /\ SumFunctionOnSet([u \in M |-> Received(O, c, F, u)], M)
              = TotalPaid(O, c, F) - mul_ceil(c.maker_fee, TotalPaid(O, c, F))
         /\ SumFunctionOnSet([u \in M |-> Given(O, c, F, u)], M) = TotalGot(O, c, F)
<1>. DEFINE D == DOMAIN O
            f == PaidOf(O, c, F)
            g == GotOf(O, c, F)
            ch == [i \in D |-> Charge(O, c, F, i)]
            x == [i \in D |-> f[i] - ch[i]]
            w == [i \in D |-> O[i].who]
            fee == mul_ceil(c.maker_fee, TotalPaid(O, c, F))
<1>1. IsFiniteSet(D) /\ IsFiniteSet(User) BY ClearingAssumption DEF Open
<1>2. \A i \in Filled(F) : i \in D /\ i \in Reach(O, c) /\ O[i].who \in User /\ O[i].who # c.who
  <2>1. \A i \in Filled(F) : i \in D /\ F[i] # 0 BY FilledFacts
  <2>2. \A i \in D : F[i] # 0 => i \in Reach(O, c) BY FillsFacts
  <2>. QED BY <2>1, <2>2, ReachOrders, OrderFields
<1>3. M \subseteq User /\ c.who \notin M /\ (M = {} <=> Filled(F) = {}) BY <1>2 DEF Makers
<1>4. IsFiniteSet(M) BY <1>1, <1>3, FS_Subset
<1>5. \A i \in D : /\ f[i] \in Nat /\ g[i] \in Nat
                   /\ F[i] = 0 => f[i] = 0 /\ g[i] = 0
  BY PaidFacts
<1>6. (\A i \in D : ch[i] \in Int /\ (F[i] = 0 => ch[i] = 0)) /\ SumFunctionOnSet(ch, D) = fee
  <2>. HIDE DEF ch
  <2>1. ch = [i \in DOMAIN O |-> Charge(O, c, F, i)] BY DEF ch
  <2>. QED BY <2>1, ChargesTotal
<1>7. \A i \in D : O[i].who \notin M => F[i] = 0
  <2>1. \A i \in D : F[i] # 0 => i \in Filled(F) BY FilledFacts
  <2>. QED BY <2>1 DEF Makers
<1>. HIDE DEF f, g, ch, fee
<1>8. \A i \in D : /\ x[i] \in Int /\ x[i] = f[i] - ch[i] /\ g[i] \in Int /\ w[i] = O[i].who
                   /\ w[i] \notin M => x[i] = 0 /\ g[i] = 0
  BY <1>5, <1>6, <1>7
<1>9. \A u : /\ Received(O, c, F, u) = SumFunctionOnSet([i \in D |-> IF w[i] = u THEN x[i] ELSE 0], D)
             /\ Given(O, c, F, u) = SumFunctionOnSet([i \in D |-> IF w[i] = u THEN g[i] ELSE 0], D)
  <2>. SUFFICES ASSUME NEW u
                PROVE  /\ Received(O, c, F, u) = SumFunctionOnSet([i \in D |-> IF w[i] = u THEN x[i] ELSE 0], D)
                       /\ Given(O, c, F, u) = SumFunctionOnSet([i \in D |-> IF w[i] = u THEN g[i] ELSE 0], D)
    OBVIOUS
  <2>1. \A i \in D : x[i] = PaidOf(O, c, F)[i] - Charge(O, c, F, i) BY DEF f, ch
  <2>2. \A i \in D : g[i] = GotOf(O, c, F)[i] BY DEF g
  <2>3. \A i \in D : w[i] = O[i].who OBVIOUS
  <2>. HIDE DEF x, w
  <2>4. [i \in D |-> IF w[i] = u THEN x[i] ELSE 0]
          = [i \in D |-> IF O[i].who = u THEN PaidOf(O, c, F)[i] - Charge(O, c, F, i) ELSE 0]
    BY <2>1, <2>3
  <2>5. [i \in D |-> IF w[i] = u THEN g[i] ELSE 0]
          = [i \in D |-> IF O[i].who = u THEN GotOf(O, c, F)[i] ELSE 0]
    BY <2>2, <2>3
  <2>. QED BY <2>4, <2>5 DEF Received, Given
<1>. HIDE DEF x, w
<1>10. ASSUME NEW u
       PROVE  /\ Received(O, c, F, u) \in Int /\ Given(O, c, F, u) \in Int
              /\ u \notin M => Received(O, c, F, u) = 0 /\ Given(O, c, F, u) = 0
  <2>. DEFINE a == [i \in D |-> IF w[i] = u THEN x[i] ELSE 0]
              b == [i \in D |-> IF w[i] = u THEN g[i] ELSE 0]
  <2>1. \A i \in D : a[i] \in Int /\ b[i] \in Int /\ (u \notin M => a[i] = 0 /\ b[i] = 0) BY <1>8
  <2>2. Received(O, c, F, u) = SumFunctionOnSet(a, D) /\ Given(O, c, F, u) = SumFunctionOnSet(b, D) BY <1>9
  <2>. HIDE DEF a, b, D
  <2>3. SumFunctionOnSet(a, D) \in Int /\ SumFunctionOnSet(b, D) \in Int BY <1>1, <2>1, SumInt
  <2>4. u \notin M => SumFunctionOnSet(a, D) = 0 /\ SumFunctionOnSet(b, D) = 0 BY <1>1, <2>1, SumZero
  <2>. QED BY <2>2, <2>3, <2>4
<1>11. SumFunctionOnSet([u \in M |-> Received(O, c, F, u)], M) = SumFunctionOnSet(x, D)
  <2>. DEFINE h == [u \in M |-> SumFunctionOnSet([i \in D |-> IF w[i] = u THEN x[i] ELSE 0], D)]
  <2>1. [u \in M |-> Received(O, c, F, u)] = h BY <1>9
  <2>2. SumFunctionOnSet(h, M) = SumFunctionOnSet(x, D)
    <3>. HIDE DEF D
    <3>1. \A i \in D : x[i] \in Int BY <1>8
    <3>2. \A i \in D : w[i] \notin M => x[i] = 0 BY <1>8
    <3>3. IsFiniteSet(D) /\ IsFiniteSet(M) BY <1>1, <1>4
    <3>. QED BY ONLY <3>1, <3>2, <3>3, SumGroup
  <2>. QED BY <2>1, <2>2
<1>12. SumFunctionOnSet([u \in M |-> Given(O, c, F, u)], M) = SumFunctionOnSet(g, D)
  <2>. DEFINE h == [u \in M |-> SumFunctionOnSet([i \in D |-> IF w[i] = u THEN g[i] ELSE 0], D)]
  <2>1. [u \in M |-> Given(O, c, F, u)] = h BY <1>9
  <2>2. SumFunctionOnSet(h, M) = SumFunctionOnSet(g, D)
    <3>. HIDE DEF D
    <3>1. \A i \in D : g[i] \in Int BY <1>8
    <3>2. \A i \in D : w[i] \notin M => g[i] = 0 BY <1>8
    <3>3. IsFiniteSet(D) /\ IsFiniteSet(M) BY <1>1, <1>4
    <3>. QED BY ONLY <3>1, <3>2, <3>3, SumGroup
  <2>. QED BY <2>1, <2>2
<1>13. SumFunctionOnSet(f, D) = SumFunctionOnSet(x, D) + SumFunctionOnSet(ch, D)
       /\ SumFunctionOnSet(x, D) \in Int /\ SumFunctionOnSet(ch, D) \in Int
  <2>. HIDE DEF D
  <2>1. \A i \in D : x[i] \in Int BY <1>8
  <2>2. \A i \in D : ch[i] \in Int BY <1>6
  <2>3. \A i \in D : f[i] = x[i] + ch[i] BY <1>5, <1>6, <1>8
  <2>4. SumFunctionOnSet(f, D) = SumFunctionOnSet(x, D) + SumFunctionOnSet(ch, D)
    BY ONLY <1>1, <2>1, <2>2, <2>3, SumAdd
  <2>. QED BY <1>1, <2>1, <2>2, <2>4, SumInt
<1>14. SumFunctionOnSet(x, D) = SumFunctionOnSet(f, D) - fee
  <2>. HIDE DEF D
  <2>. QED BY ONLY <1>6, <1>13
<1>. QED BY <1>3, <1>4, <1>10, <1>11, <1>12, <1>14 DEF fee, f, g, TotalPaid, TotalGot

(* What was paid for an amount lies between the prices of its parts.       *)
LEMMA BetweenPrices ==
  ASSUME NEW O, Open(O), NEW c \in Cmd, NEW F, F = Fills(O, c), Filled(F) # {}
  PROVE  LET T == SumFunctionOnSet(F, DOMAIN O)
             at == {O[i].price : i \in Filled(F)}
             V == IF c.side = "ask" THEN TotalGot(O, c, F) ELSE TotalPaid(O, c, F)
         IN /\ T = IF c.side = "ask" THEN TotalPaid(O, c, F) ELSE TotalGot(O, c, F)
            /\ T \in Nat \ {0} /\ V \in Nat
            /\ \E low, high \in at : low \in Nat /\ high \in Nat /\ low * T <= V /\ V <= high * T
<1>. DEFINE D == DOMAIN O
            v == IF c.side = "ask" THEN GotOf(O, c, F) ELSE PaidOf(O, c, F)
            a == IF c.side = "ask" THEN PaidOf(O, c, F) ELSE GotOf(O, c, F)
            at == {O[i].price : i \in Filled(F)}
            T == SumFunctionOnSet(F, D)
            V == SumFunctionOnSet(v, D)
<1>1. IsFiniteSet(D) BY DEF Open
<1>2. \A i \in D : F[i] \in Nat /\ O[i].price \in Nat /\ v[i] = F[i] * O[i].price /\ a[i] = F[i]
  BY FillsFacts, OrderFields DEF PaidOf, GotOf, Paid, Got
<1>. HIDE DEF v, a
<1>3. SumFunctionOnSet(a, D) = T
  <2>1. \A i \in D : F[i] \in Int /\ a[i] = F[i] BY <1>2
  <2>. HIDE DEF D
  <2>. QED BY <1>1, <2>1, SumAgree
<1>4. T \in Nat /\ V \in Nat
  <2>1. ASSUME NEW i \in D PROVE v[i] \in Nat /\ F[i] \in Nat
    <3>1. F[i] \in Nat /\ O[i].price \in Nat /\ v[i] = F[i] * O[i].price BY <1>2
    <3>2. F[i] * O[i].price \in Nat BY ONLY <3>1, MulLaws
    <3>. QED BY ONLY <3>1, <3>2
  <2>. HIDE DEF D
  <2>. QED BY <1>1, <2>1, SumNat
<1>5. T # 0 BY FilledFacts
<1>6. at \subseteq Nat /\ at # {} /\ \A i \in D : F[i] # 0 => O[i].price \in at
  <2>1. \A i : i \in Filled(F) <=> i \in D /\ F[i] # 0 BY FilledFacts
  <2>. QED BY <1>2, <2>1
<1>7. IsFiniteSet(at)
  <2>. DEFINE p == [i \in D |-> O[i].price]
  <2>1. Filled(F) \subseteq D /\ IsFiniteSet(Filled(F)) BY <1>1, FilledFacts, FS_Subset
  <2>2. IsFiniteSet({p[i] : i \in Filled(F)})
    <3>. HIDE DEF p
    <3>. QED BY ONLY <2>1, FiniteImage
  <2>3. {p[i] : i \in Filled(F)} = at BY <2>1
  <2>. QED BY <2>2, <2>3
<1>. HIDE DEF at
<1>8. PICK low \in at : \A p \in at : low <= p BY <1>6, LeastNat
<1>9. PICK high \in at : \A p \in at : p <= high BY <1>6, <1>7, GreatestNat
<1>10. low \in Nat /\ high \in Nat BY <1>6
<1>11. ASSUME NEW k \in Nat PROVE /\ SumFunctionOnSet([i \in D |-> k * F[i]], D) = k * T
                                  /\ \A i \in D : k * F[i] \in Int
  <2>. DEFINE h == [i \in D |-> k * F[i]]
  <2>1. \A i \in D : F[i] \in Int /\ h[i] = k * F[i] BY <1>2
  <2>2. k \in Int OBVIOUS
  <2>3. \A i \in D : k * F[i] \in Int BY <1>2, MulLaws
  <2>. HIDE DEF h, D
  <2>4. SumFunctionOnSet(h, D) = k * T BY <1>1, <2>1, <2>2, SumScale
  <2>. QED BY <2>3, <2>4 DEF h
<1>12. \A i \in D : low * F[i] <= v[i] /\ v[i] <= high * F[i] /\ v[i] \in Int
  <2>. SUFFICES ASSUME NEW i \in D PROVE low * F[i] <= v[i] /\ v[i] <= high * F[i] /\ v[i] \in Int OBVIOUS
  <2>1. F[i] \in Nat /\ O[i].price \in Nat /\ v[i] = F[i] * O[i].price BY <1>2
  <2>2. low * F[i] = F[i] * low /\ high * F[i] = F[i] * high /\ v[i] \in Nat BY <1>10, <2>1, MulLaws
  <2>3. CASE F[i] = 0
    <3>1. v[i] = 0 /\ low * F[i] = 0 /\ high * F[i] = 0 BY <1>10, <2>1, <2>3
    <3>. QED BY <3>1
  <2>4. CASE F[i] # 0
    <3>1. low <= O[i].price /\ O[i].price <= high BY <1>6, <1>8, <1>9, <2>4
    <3>2. F[i] * low <= F[i] * O[i].price /\ F[i] * O[i].price <= F[i] * high
      BY <1>10, <2>1, <3>1, MulMono
    <3>. QED BY <2>1, <2>2, <3>2
  <2>. QED BY <2>3, <2>4
<1>13. low * T <= V
  <2>. DEFINE h == [i \in D |-> low * F[i]]
  <2>1. \A i \in D : h[i] \in Int /\ v[i] \in Int /\ h[i] <= v[i] BY <1>10, <1>11, <1>12
  <2>2. SumFunctionOnSet(h, D) = low * T BY <1>10, <1>11
  <2>. HIDE DEF h, D
  <2>3. SumFunctionOnSet(h, D) <= SumFunctionOnSet(v, D) BY <1>1, <2>1, SumMono
  <2>. QED BY <2>2, <2>3
<1>14. V <= high * T
  <2>. DEFINE h == [i \in D |-> high * F[i]]
  <2>1. \A i \in D : h[i] \in Int /\ v[i] \in Int /\ v[i] <= h[i] BY <1>10, <1>11, <1>12
  <2>2. SumFunctionOnSet(h, D) = high * T BY <1>10, <1>11
  <2>. HIDE DEF h, D
  <2>3. SumFunctionOnSet(v, D) <= SumFunctionOnSet(h, D) BY <1>1, <2>1, SumMono
  <2>. QED BY <2>2, <2>3
<1>15. T = IF c.side = "ask" THEN TotalPaid(O, c, F) ELSE TotalGot(O, c, F) BY <1>3 DEF a, TotalPaid, TotalGot
<1>16. V = IF c.side = "ask" THEN TotalGot(O, c, F) ELSE TotalPaid(O, c, F) BY DEF v, TotalPaid, TotalGot
<1>17. \E l, h \in at : l \in Nat /\ h \in Nat /\ l * T <= V /\ V <= h * T
  <2>. HIDE DEF T, V
  <2>. QED BY <1>10, <1>13, <1>14
<1>. HIDE DEF T, V
<1>18. T \in Nat \ {0} /\ V \in Nat BY <1>4, <1>5
<1>. QED BY <1>15, <1>16, <1>17, <1>18 DEF T, D, at

Leaf == [available : Int, frozen : Int]
Accounts == [User -> [Token -> Leaf]]
SumAt(acc, u, t) == acc[u][t].available + acc[u][t].frozen

(* A taker pays one of the two tokens and gets the other.                  *)
LEMMA TokensOf ==
  ASSUME NEW side \in {"ask", "bid"}
  PROVE  /\ PayToken(side) \in Token /\ GetToken(side) \in Token /\ PayToken(side) # GetToken(side)
         /\ \A t \in Token : t = PayToken(side) \/ t = GetToken(side)
         /\ side = "ask" => PayToken(side) = Base /\ GetToken(side) = Quote
         /\ side = "bid" => PayToken(side) = Quote /\ GetToken(side) = Base
BY ClearingAssumption DEF PayToken, GetToken, Token

BothTokens(a, b) == a \in Token /\ b \in Token /\ a # b /\ \A t \in Token : t = a \/ t = b
MakerGets(old, new, a, b, r, g) ==
  new = [old EXCEPT ![a].available = @ + r, ![b].frozen = @ - g]
TakerGets(old, new, a, b, paid, kept, g) ==
  new = [old EXCEPT ![a] = [available |-> @.available - (paid + kept), frozen |-> @.frozen + kept],
                    ![b].available = @ + g]

(* A maker receives what the trade pays it and gives out of what is frozen. *)
LEMMA MakerExcept ==
  ASSUME NEW old \in [Token -> Leaf], NEW a, NEW b, BothTokens(a, b), NEW r \in Int, NEW g \in Int,
         NEW new, MakerGets(old, new, a, b, r, g)
  PROVE  /\ new \in [Token -> Leaf]
         /\ new[a].available = old[a].available + r /\ new[a].frozen = old[a].frozen
         /\ new[b].available = old[b].available /\ new[b].frozen = old[b].frozen - g
         /\ new[a].available + new[a].frozen = old[a].available + old[a].frozen + r
         /\ new[b].available + new[b].frozen = (old[b].available + old[b].frozen) - g
<1>. DEFINE na == [old[a] EXCEPT !.available = @ + r]
            nb == [old[b] EXCEPT !.frozen = @ - g]
<1>0. a \in Token /\ b \in Token /\ a # b /\ \A t \in Token : t = a \/ t = b BY DEF BothTokens
<1>1. old[a] \in Leaf /\ old[b] \in Leaf BY <1>0
<1>2. na \in Leaf /\ na.available = old[a].available + r /\ na.frozen = old[a].frozen BY <1>1 DEF Leaf
<1>3. nb \in Leaf /\ nb.available = old[b].available /\ nb.frozen = old[b].frozen - g BY <1>1 DEF Leaf
<1>4. new = [t \in Token |-> IF t = a THEN na ELSE IF t = b THEN nb ELSE old[t]] BY <1>0 DEF MakerGets
<1>. HIDE DEF na, nb
<1>5. new[a] = na /\ new[b] = nb BY <1>0, <1>4
<1>6. new \in [Token -> Leaf] BY <1>2, <1>3, <1>4
<1>7. old[a].available \in Int /\ old[a].frozen \in Int /\ old[b].available \in Int /\ old[b].frozen \in Int
  BY <1>1 DEF Leaf
<1>. QED BY <1>2, <1>3, <1>5, <1>6, <1>7

(* The taker pays out of what is available, which also covers its rest.    *)
LEMMA TakerExcept ==
  ASSUME NEW old \in [Token -> Leaf], NEW a, NEW b, BothTokens(a, b),
         NEW paid \in Int, NEW kept \in Int, NEW g \in Int,
         NEW new, TakerGets(old, new, a, b, paid, kept, g)
  PROVE  /\ new \in [Token -> Leaf]
         /\ new[a].available = old[a].available - (paid + kept)
         /\ new[a].frozen = old[a].frozen + kept
         /\ new[b].available = old[b].available + g /\ new[b].frozen = old[b].frozen
         /\ new[a].available + new[a].frozen = (old[a].available + old[a].frozen) - paid
         /\ new[b].available + new[b].frozen = old[b].available + old[b].frozen + g
<1>. DEFINE na == [available |-> old[a].available - (paid + kept), frozen |-> old[a].frozen + kept]
            nb == [old[b] EXCEPT !.available = @ + g]
<1>0. a \in Token /\ b \in Token /\ a # b /\ \A t \in Token : t = a \/ t = b BY DEF BothTokens
<1>1. old[a] \in Leaf /\ old[b] \in Leaf BY <1>0
<1>2. na \in Leaf /\ na.available = old[a].available - (paid + kept) /\ na.frozen = old[a].frozen + kept
  BY <1>1 DEF Leaf
<1>3. nb \in Leaf /\ nb.available = old[b].available + g /\ nb.frozen = old[b].frozen BY <1>1 DEF Leaf
<1>4. new = [t \in Token |-> IF t = a THEN na ELSE IF t = b THEN nb ELSE old[t]] BY <1>0 DEF TakerGets
<1>. HIDE DEF na, nb
<1>5. new[a] = na /\ new[b] = nb BY <1>0, <1>4
<1>6. new \in [Token -> Leaf] BY <1>2, <1>3, <1>4
<1>7. old[a].available \in Int /\ old[a].frozen \in Int /\ old[b].available \in Int /\ old[b].frozen \in Int
  BY <1>1 DEF Leaf
<1>. QED BY <1>2, <1>3, <1>5, <1>6, <1>7

(* How a trade changes what each user has.                                 *)
LEMMA AccountsFacts ==
  ASSUME NEW O, NEW c, NEW F, NEW R, NEW n, NEW P, Trade(O, c, F, R, n, P),
         NEW acc \in Accounts, NEW new, new = AccountsAfter(acc, O, c, F, R)
  PROVE  LET pay == PayToken(c.side)
             get == GetToken(c.side)
             kept == Paid(c.side, R, c.price)
         IN /\ new \in Accounts
            /\ kept \in Nat /\ (R = 0 => kept = 0)
            /\ new[c.who][pay].available = acc[c.who][pay].available - (TotalPaid(O, c, F) + kept)
            /\ new[c.who][pay].frozen = acc[c.who][pay].frozen + kept
            /\ new[c.who][get].available = acc[c.who][get].available
                 + (TotalGot(O, c, F) - mul_ceil(c.taker_fee, TotalGot(O, c, F)))
            /\ new[c.who][get].frozen = acc[c.who][get].frozen
            /\ SumAt(new, c.who, pay) = SumAt(acc, c.who, pay) - TotalPaid(O, c, F)
            /\ SumAt(new, c.who, get) = SumAt(acc, c.who, get)
                 + (TotalGot(O, c, F) - mul_ceil(c.taker_fee, TotalGot(O, c, F)))
            /\ \A u \in User \ {c.who} :
                 /\ new[u][pay].available = acc[u][pay].available + Received(O, c, F, u)
                 /\ new[u][pay].frozen = acc[u][pay].frozen
                 /\ new[u][get].available = acc[u][get].available
                 /\ new[u][get].frozen = acc[u][get].frozen - Given(O, c, F, u)
                 /\ SumAt(new, u, pay) = SumAt(acc, u, pay) + Received(O, c, F, u)
                 /\ SumAt(new, u, get) = SumAt(acc, u, get) - Given(O, c, F, u)
<1>. DEFINE pay == PayToken(c.side)
            get == GetToken(c.side)
            kept == Paid(c.side, R, c.price)
            g == TotalGot(O, c, F) - mul_ceil(c.taker_fee, TotalGot(O, c, F))
<1>0. Open(O) /\ c \in Cmd /\ F = Fills(O, c) /\ R = Rest(O, c) BY DEF Trade
<1>1. c.side \in {"ask", "bid"} /\ c.who \in User /\ c.price \in Nat /\ R \in Nat /\ c.taker_fee \in Nat
  BY <1>0, CmdFields, RestFacts
<1>2. BothTokens(pay, get) BY <1>1, TokensOf DEF BothTokens
<1>3. TotalPaid(O, c, F) \in Nat /\ TotalGot(O, c, F) \in Nat BY <1>0, PaidFacts
<1>4. kept \in Nat /\ (R = 0 => kept = 0)
  <2>1. R * c.price \in Nat /\ (R = 0 => R * c.price = 0) BY <1>1, MulLaws
  <2>. QED BY <1>1, <2>1 DEF Paid
<1>5. g \in Int
  <2>1. mul_ceil(c.taker_fee, TotalGot(O, c, F)) \in Nat BY <1>1, <1>3, MulCeilType
  <2>. QED BY <1>3, <2>1
<1>. HIDE DEF kept
<1>6. TakerGets(acc[c.who], new[c.who], pay, get, TotalPaid(O, c, F), kept, g)
  <2>1. new[c.who] = TakerLeaves(acc[c.who], O, c, F, R) BY <1>1 DEF AccountsAfter
  <2>2. PaidTo(O, c, F, DOMAIN O) = TotalPaid(O, c, F) BY <1>0, PaidFacts DEF TotalPaid
  <2>3. SumFunction([i \in DOMAIN O |-> Got(c.side, F[i], O[i].price)]) = TotalGot(O, c, F)
    BY DEF SumFunction, TotalGot, GotOf
  <2>. QED BY <2>1, <2>2, <2>3 DEF TakerLeaves, TakerGets, kept
<1>7. ASSUME NEW u \in User \ {c.who}
      PROVE  MakerGets(acc[u], new[u], pay, get, Received(O, c, F, u), Given(O, c, F, u))
  <2>1. new[u] = MakerLeaves(acc[u], O, c, F, u) BY DEF AccountsAfter
  <2>2. SumFunction([i \in DOMAIN O |-> IF O[i].who = u
          THEN Paid(c.side, F[i], O[i].price) - Charge(O, c, F, i) ELSE 0]) = Received(O, c, F, u)
    <3>1. [i \in DOMAIN O |-> IF O[i].who = u THEN Paid(c.side, F[i], O[i].price) - Charge(O, c, F, i) ELSE 0]
            = [i \in DOMAIN O |-> IF O[i].who = u THEN PaidOf(O, c, F)[i] - Charge(O, c, F, i) ELSE 0]
      BY DEF PaidOf
    <3>. QED BY <3>1 DEF SumFunction, Received
  <2>3. SumFunction([i \in DOMAIN O |-> IF O[i].who = u
          THEN Got(c.side, F[i], O[i].price) ELSE 0]) = Given(O, c, F, u)
    <3>1. [i \in DOMAIN O |-> IF O[i].who = u THEN Got(c.side, F[i], O[i].price) ELSE 0]
            = [i \in DOMAIN O |-> IF O[i].who = u THEN GotOf(O, c, F)[i] ELSE 0]
      BY DEF GotOf
    <3>. QED BY <3>1 DEF SumFunction, Given
  <2>. QED BY <2>1, <2>2, <2>3 DEF MakerLeaves, MakerGets
<1>. HIDE DEF pay, get, g
<1>8. /\ new[c.who] \in [Token -> Leaf]
      /\ new[c.who][pay].available = acc[c.who][pay].available - (TotalPaid(O, c, F) + kept)
      /\ new[c.who][pay].frozen = acc[c.who][pay].frozen + kept
      /\ new[c.who][get].available = acc[c.who][get].available + g
      /\ new[c.who][get].frozen = acc[c.who][get].frozen
      /\ SumAt(new, c.who, pay) = SumAt(acc, c.who, pay) - TotalPaid(O, c, F)
      /\ SumAt(new, c.who, get) = SumAt(acc, c.who, get) + g
  <2>1. acc[c.who] \in [Token -> Leaf] BY <1>1 DEF Accounts
  <2>. DEFINE x == acc[c.who]
              y == new[c.who]
              paid == TotalPaid(O, c, F)
  <2>2. kept \in Int /\ paid \in Int BY <1>3, <1>4
  <2>3. TakerGets(x, y, pay, get, paid, kept, g) BY <1>6
  <2>. HIDE DEF x, y, paid
  <2>4. /\ y \in [Token -> Leaf]
        /\ y[pay].available = x[pay].available - (paid + kept)
        /\ y[pay].frozen = x[pay].frozen + kept
        /\ y[get].available = x[get].available + g /\ y[get].frozen = x[get].frozen
        /\ y[pay].available + y[pay].frozen = (x[pay].available + x[pay].frozen) - paid
        /\ y[get].available + y[get].frozen = x[get].available + x[get].frozen + g
    <3>1. x \in [Token -> Leaf] BY <2>1 DEF x
    <3>. QED BY ONLY <1>2, <1>5, <2>2, <2>3, <3>1, TakerExcept
  <2>. QED BY ONLY <2>4 DEF SumAt, x, y, paid
<1>9. ASSUME NEW u \in User \ {c.who}
      PROVE  /\ new[u] \in [Token -> Leaf]
             /\ new[u][pay].available = acc[u][pay].available + Received(O, c, F, u)
             /\ new[u][pay].frozen = acc[u][pay].frozen
             /\ new[u][get].available = acc[u][get].available
             /\ new[u][get].frozen = acc[u][get].frozen - Given(O, c, F, u)
             /\ SumAt(new, u, pay) = SumAt(acc, u, pay) + Received(O, c, F, u)
             /\ SumAt(new, u, get) = SumAt(acc, u, get) - Given(O, c, F, u)
  <2>1. acc[u] \in [Token -> Leaf] BY DEF Accounts
  <2>2. Received(O, c, F, u) \in Int /\ Given(O, c, F, u) \in Int BY <1>0, MakersFacts
  <2>. DEFINE x == acc[u]
              y == new[u]
              r == Received(O, c, F, u)
              h == Given(O, c, F, u)
  <2>3. x \in [Token -> Leaf] /\ r \in Int /\ h \in Int /\ MakerGets(x, y, pay, get, r, h) BY <1>7, <2>1, <2>2
  <2>. HIDE DEF x, y, r, h
  <2>4. /\ y \in [Token -> Leaf]
        /\ y[pay].available = x[pay].available + r /\ y[pay].frozen = x[pay].frozen
        /\ y[get].available = x[get].available /\ y[get].frozen = x[get].frozen - h
        /\ y[pay].available + y[pay].frozen = x[pay].available + x[pay].frozen + r
        /\ y[get].available + y[get].frozen = (x[get].available + x[get].frozen) - h
    BY ONLY <1>2, <2>3, MakerExcept
  <2>. QED BY ONLY <2>4 DEF SumAt, x, y, r, h
<1>10. new \in Accounts
  <2>1. \A u \in User : new[u] \in [Token -> Leaf] BY <1>8, <1>9
  <2>. QED BY <2>1 DEF AccountsAfter, Accounts
<1>. QED BY <1>4, <1>8, <1>9, <1>10 DEF pay, get, g, kept

-----------------------------------------------------------------------------
(* What users have stays covered: nobody pays more than there is, and what *)
(* is frozen is what the open orders may still be asked for.               *)

(* Of an amount, a rate of at most the whole takes at most the amount, and *)
(* of more, at most so much more.                                          *)
LEMMA MulCeilBelow ==
  ASSUME NEW rate \in Nat, rate <= Parts, NEW x \in Nat, NEW y \in Nat
  PROVE  mul_ceil(rate, x) <= x /\ mul_ceil(rate, x + y) - mul_ceil(rate, x) <= y
<1>1. Parts \in Nat \ {0} BY ClearingAssumption
<1>2. ASSUME NEW a \in Nat, NEW b \in Nat PROVE mul_ceil(rate, a + b) - mul_ceil(rate, a) <= b
  <2>. DEFINE u == rate * a + Parts - 1
              v == rate * (a + b) + Parts - 1
              d == u \div Parts
              e == v \div Parts
              m == u % Parts
              k == v % Parts
  <2>1. rate * a \in Nat /\ rate * b \in Nat /\ rate * (a + b) = rate * a + rate * b BY <1>2, MulLaws
  <2>2. rate * b <= Parts * b
    <3>1. b * rate <= b * Parts BY <1>1, <1>2, MulMono
    <3>. QED BY <1>1, <1>2, <3>1, MulLaws
  <2>3. Parts * b \in Nat BY <1>1, <1>2, MulLaws
  <2>4. u \in Nat /\ v \in Nat /\ v <= u + Parts * b BY <1>1, <2>1, <2>2, <2>3
  <2>5. mul_ceil(rate, a) = d /\ mul_ceil(rate, a + b) = e BY DEF mul_ceil
  <2>. HIDE DEF u, v
  <2>6. /\ d \in 0..u /\ m \in 0..(Parts - 1) /\ u = (Parts * d) + m
        /\ e \in 0..v /\ k \in 0..(Parts - 1) /\ v = (Parts * e) + k
    BY <1>1, <2>4, DivMod
  <2>. HIDE DEF d, e, m, k
  <2>7. d \in Nat /\ e \in Nat /\ m \in Nat /\ k \in Nat /\ m < Parts BY <1>1, <2>4, <2>6
  <2>8. Parts * (d + b + 1) = Parts * d + Parts * b + Parts /\ Parts * d \in Nat /\ Parts * e \in Nat
    BY <1>1, <1>2, <2>7, MulLaws
  <2>9. Parts * e < Parts * (d + b + 1)
    BY ONLY <1>1, <2>3, <2>4, <2>6, <2>7, <2>8
  <2>10. d + b + 1 \in Nat BY <1>2, <2>7
  <2>11. e < d + b + 1 BY <1>1, <2>7, <2>9, <2>10, MulMono
  <2>. QED BY ONLY <1>2, <2>5, <2>7, <2>11
<1>3. mul_ceil(rate, 0) = 0 /\ mul_ceil(rate, x) \in Nat /\ 0 + x = x BY MulCeilType
<1>4. mul_ceil(rate, 0 + x) - mul_ceil(rate, 0) <= x BY <1>2
<1>5. mul_ceil(rate, x) <= x
  <2>. DEFINE z == mul_ceil(rate, x)
  <2>1. z \in Nat /\ z - 0 <= x BY <1>3, <1>4
  <2>. HIDE DEF z
  <2>2. z <= x BY ONLY <2>1
  <2>. QED BY <2>2 DEF z
<1>. QED BY <1>2, <1>5

(* No maker is charged more than it is paid, so each receives something.   *)
LEMMA MakersReceive ==
  ASSUME NEW O, Open(O), NEW c \in Cmd, NEW F, F = Fills(O, c)
  PROVE  \A u : Received(O, c, F, u) \in Nat /\ Given(O, c, F, u) \in Nat
<1>. DEFINE D == DOMAIN O
            f == PaidOf(O, c, F)
            g == GotOf(O, c, F)
<1>1. IsFiniteSet(D) BY DEF Open
<1>2. c.maker_fee \in Nat /\ c.maker_fee <= Parts BY CmdFields
<1>3. \A i \in D : f[i] \in Nat /\ g[i] \in Nat BY PaidFacts
<1>4. \A S \in SUBSET D : PaidTo(O, c, F, S) = SumFunctionOnSet(f, S) /\ PaidTo(O, c, F, S) \in Nat
  BY PaidFacts
<1>0. \A i \in D : Charge(O, c, F, i) \in Int
  <2>. DEFINE ch == [i \in D |-> Charge(O, c, F, i)]
  <2>1. \A i \in D : ch[i] = Charge(O, c, F, i) OBVIOUS
  <2>2. ch = [i \in DOMAIN O |-> Charge(O, c, F, i)] OBVIOUS
  <2>. HIDE DEF ch
  <2>3. \A i \in D : ch[i] \in Int BY <2>2, ChargesTotal
  <2>. QED BY <2>1, <2>3
<1>5. ASSUME NEW i \in D PROVE f[i] - Charge(O, c, F, i) \in Nat
  <2>. DEFINE S == Ahead(O, c, i)
              U == S \cup {i}
              a == PaidTo(O, c, F, S)
              b == PaidTo(O, c, F, U)
  <2>1. S \in SUBSET D /\ U \in SUBSET D BY AheadOrders
  <2>2. a \in Nat /\ b \in Nat BY <1>4, <2>1
  <2>3. Charge(O, c, F, i) \in Int BY <1>0
  <2>4. Charge(O, c, F, i) = mul_ceil(c.maker_fee, b) - mul_ceil(c.maker_fee, a) BY DEF Charge
  <2>5. b = a + f[i] \/ b = a
    <3>1. CASE i \in S
      <4>1. U = S BY <3>1
      <4>. QED BY <4>1
    <3>2. CASE i \notin S
      <4>1. IsFiniteSet(U) /\ (\A k \in U : f[k] \in Int) /\ i \in U /\ U \ {i} = S
        BY <1>1, <1>3, <2>1, <3>2, FS_Subset
      <4>2. a = SumFunctionOnSet(f, S) /\ b = SumFunctionOnSet(f, U) BY <1>4, <2>1
      <4>. HIDE DEF U, S, f, a, b
      <4>3. SumFunctionOnSet(f, U) = f[i] + SumFunctionOnSet(f, S) BY ONLY <4>1, SumRemove
      <4>4. f[i] \in Nat BY <1>3, <1>5
      <4>. QED BY <2>2, <4>2, <4>3, <4>4
    <3>. QED BY <3>1, <3>2
  <2>. HIDE DEF a, b, f
  <2>6. f[i] \in Nat BY <1>3, <1>5
  <2>7. mul_ceil(c.maker_fee, a + f[i]) - mul_ceil(c.maker_fee, a) <= f[i] BY <1>2, <2>2, <2>6, MulCeilBelow
  <2>8. mul_ceil(c.maker_fee, a) \in Nat BY <1>2, <2>2, MulCeilType
  <2>9. Charge(O, c, F, i) <= f[i] BY <2>4, <2>5, <2>6, <2>7, <2>8
  <2>. QED BY <2>3, <2>6, <2>9
<1>6. ASSUME NEW u PROVE Received(O, c, F, u) \in Nat /\ Given(O, c, F, u) \in Nat
  <2>. DEFINE x == [i \in D |-> IF O[i].who = u THEN f[i] - Charge(O, c, F, i) ELSE 0]
              y == [i \in D |-> IF O[i].who = u THEN g[i] ELSE 0]
  <2>1. \A i \in D : x[i] \in Nat /\ y[i] \in Nat BY <1>3, <1>5
  <2>2. Received(O, c, F, u) = SumFunctionOnSet(x, D) /\ Given(O, c, F, u) = SumFunctionOnSet(y, D)
    BY DEF Received, Given
  <2>. HIDE DEF x, y, D
  <2>3. SumFunctionOnSet(x, D) \in Nat /\ SumFunctionOnSet(y, D) \in Nat BY <1>1, <2>1, SumNat
  <2>. QED BY <2>2, <2>3
<1>. QED BY <1>6

(* A trade and what stays of the order cost at most what the order asks    *)
(* for at its own price.                                                   *)
LEMMA TradeCost ==
  ASSUME NEW O, Open(O), NEW c \in Cmd, NEW F, F = Fills(O, c), NEW R, R = Rest(O, c)
  PROVE  /\ Paid(c.side, c.amount, c.price) \in Nat
         /\ TotalPaid(O, c, F) + Paid(c.side, R, c.price) <= Paid(c.side, c.amount, c.price)
<1>. DEFINE D == DOMAIN O
            f == PaidOf(O, c, F)
            T == SumFunctionOnSet(F, D)
<1>1. IsFiniteSet(D) BY DEF Open
<1>2. c.side \in {"ask", "bid"} /\ c.amount \in Nat /\ c.price \in Nat BY CmdFields
<1>3. R \in Nat /\ T \in Nat /\ (R # 0 => T + R = c.amount) BY RestFacts
<1>4. \A i \in D : F[i] \in Nat /\ O[i].price \in Nat /\ f[i] \in Nat BY FillsFacts, OrderFields, PaidFacts
<1>5. T + R <= c.amount
  <2>1. T = Least(c.amount, SumFunctionOnSet(Rests(O), Reach(O, c))) BY FillsTotal
  <2>2. IsFiniteSet(Reach(O, c)) /\ \A i \in Reach(O, c) : Rests(O)[i] \in Nat
    BY ReachOrders, AheadOrders, OrderFields DEF Rests
  <2>3. SumFunctionOnSet(Rests(O), Reach(O, c)) \in Nat BY <2>2, SumNat
  <2>. DEFINE y == SumFunctionOnSet(Rests(O), Reach(O, c))
  <2>4. y \in Nat /\ T = Least(c.amount, y) BY <2>1, <2>3
  <2>. HIDE DEF y, T
  <2>5. T <= c.amount BY <1>2, <2>4 DEF Least
  <2>. QED BY <1>2, <1>3, <2>5
<1>6. CASE c.side = "ask"
  <2>1. \A i \in D : f[i] = F[i] /\ F[i] \in Int BY <1>4, <1>6 DEF PaidOf, Paid
  <2>. HIDE DEF D, f, T
  <2>2. SumFunctionOnSet(f, D) = SumFunctionOnSet(F, D) BY <1>1, <2>1, SumAgree
  <2>. QED BY <1>2, <1>5, <1>6, <2>2 DEF Paid, TotalPaid, D, f, T
<1>7. CASE c.side = "bid"
  <2>. DEFINE k == c.price
              h == [i \in D |-> k * F[i]]
  <2>1. ASSUME NEW i \in D PROVE f[i] <= h[i] /\ h[i] \in Nat
    <3>1. f[i] = F[i] * O[i].price /\ h[i] = k * F[i] BY <1>7, <2>1 DEF PaidOf, Paid
    <3>2. F[i] # 0 => O[i].price <= k
      <4>1. F[i] # 0 => i \in Crossing(O, c) BY FillsFacts, ReachOrders
      <4>. QED BY <1>7, <2>1, <4>1, CrossingFacts
    <3>3. F[i] = 0 => f[i] = 0 BY PaidFacts
    <3>. DEFINE q == O[i].price
                z == F[i]
    <3>4. q \in Nat /\ z \in Nat /\ k \in Nat BY <1>2, <1>4, <2>1
    <3>5. f[i] = z * q /\ h[i] = k * z /\ (z # 0 => q <= k) /\ (z = 0 => f[i] = 0) BY <3>1, <3>2, <3>3
    <3>. HIDE DEF q, z, f, h, k
    <3>6. k * z = z * k /\ z * k \in Nat BY <3>4, MulLaws
    <3>7. CASE z = 0 BY <3>5, <3>6, <3>7
    <3>8. CASE z # 0
      <4>1. z * q <= z * k BY <3>4, <3>5, <3>8, MulMono
      <4>. QED BY <3>5, <3>6, <4>1
    <3>. QED BY <3>7, <3>8
  <2>2. \A i \in D : h[i] = k * F[i] OBVIOUS
  <2>3. k \in Int /\ k \in Nat BY <1>2
  <2>4. \A i \in D : f[i] \in Int /\ h[i] \in Int /\ F[i] \in Int /\ f[i] <= h[i] BY <1>4, <2>1
  <2>. HIDE DEF h, k, f, D, T
  <2>5. SumFunctionOnSet(f, D) <= SumFunctionOnSet(h, D) BY <1>1, <2>4, SumMono
  <2>6. SumFunctionOnSet(h, D) = k * SumFunctionOnSet(F, D) BY <1>1, <2>2, <2>3, <2>4, SumScale
  <2>7. SumFunctionOnSet(h, D) = k * T BY <2>6 DEF T
  <2>8. k * (T + R) <= k * c.amount
    <3>1. T + R \in Nat BY <1>3
    <3>. QED BY <1>2, <1>5, <2>3, <3>1, MulMono
  <2>9. k * (T + R) = k * T + k * R /\ k * T \in Nat /\ k * R \in Nat /\ k * R = R * k
        /\ k * c.amount = c.amount * k /\ c.amount * k \in Nat
    <3>1. R \in Nat /\ T \in Nat /\ c.amount \in Nat BY <1>2, <1>3
    <3>. QED BY ONLY <2>3, <3>1, MulLaws
  <2>10. Paid(c.side, R, c.price) = R * k /\ Paid(c.side, c.amount, c.price) = c.amount * k
    BY <1>7 DEF Paid, k
  <2>11. TotalPaid(O, c, F) = SumFunctionOnSet(f, D) BY DEF TotalPaid, f, D
  <2>12. SumFunctionOnSet(f, D) \in Int BY <1>1, <2>4, SumInt
  <2>. QED BY <2>5, <2>7, <2>8, <2>9, <2>10, <2>11, <2>12
<1>. QED BY <1>2, <1>6, <1>7

(* What user u may still be asked for in token t, if x is left of orders.  *)
Value(O, x, u, t) ==
  [i \in DOMAIN O |-> IF O[i].who = u /\ PayToken(O[i].side) = t
                      THEN Paid(O[i].side, x[i], O[i].price) ELSE 0]
ValueOf(O, x, u, t) == SumFunctionOnSet(Value(O, x, u, t), DOMAIN O)

(* Every account can pay, and its frozen part is for its open orders.      *)
Covered(O, acc) ==
  \A u \in User, t \in Token : /\ acc[u][t].available \in Nat
                               /\ acc[u][t].frozen = ValueOf(O, Rests(O), u, t)

(* What is paid is proportional to what is taken.                          *)
LEMMA PaidLinear ==
  ASSUME NEW s, NEW p \in Nat, NEW x \in Nat, NEW y \in Nat
  PROVE  /\ Paid(s, x, p) \in Nat /\ (x = 0 => Paid(s, x, p) = 0)
         /\ y <= x => Paid(s, x - y, p) = Paid(s, x, p) - Paid(s, y, p)
<1>1. x * p \in Nat /\ y * p \in Nat /\ (x = 0 => x * p = 0) BY MulLaws
<1>2. ASSUME y <= x PROVE (x - y) * p = x * p - y * p
  <2>. DEFINE z == x - y
  <2>1. z \in Nat /\ x = y + z BY <1>2
  <2>. HIDE DEF z
  <2>2. p * (y + z) = p * y + p * z /\ p * y = y * p /\ p * z = z * p /\ p * (y + z) = (y + z) * p
        /\ z * p \in Nat
    BY <2>1, MulLaws
  <2>3. z * p = x * p - y * p BY <1>1, <2>1, <2>2
  <2>. QED BY <2>3 DEF z
<1>. QED BY <1>1, <1>2 DEF Paid

(* The value of open orders and of what is taken of them.                  *)
LEMMA ValueType ==
  ASSUME NEW O, Open(O), NEW x, \A i \in DOMAIN O : x[i] \in Nat, NEW u, NEW t
  PROVE  /\ \A i \in DOMAIN O : Value(O, x, u, t)[i] \in Nat
         /\ ValueOf(O, x, u, t) \in Nat
<1>. DEFINE v == Value(O, x, u, t)
<1>1. ASSUME NEW i \in DOMAIN O PROVE v[i] \in Nat
  <2>1. O[i].price \in Nat /\ x[i] \in Nat BY OrderFields
  <2>2. Paid(O[i].side, x[i], O[i].price) \in Nat BY <2>1, PaidLinear
  <2>. QED BY <2>2 DEF Value
<1>2. IsFiniteSet(DOMAIN O) BY DEF Open
<1>. HIDE DEF v
<1>3. SumFunctionOnSet(v, DOMAIN O) \in Nat BY <1>1, <1>2, SumNat
<1>. QED BY <1>1, <1>3 DEF v, ValueOf

(* After a trade the open orders are worth less by what was taken and more *)
(* by what stays of the new order.                                         *)
LEMMA AfterValue ==
  ASSUME NEW O, NEW c, NEW F, NEW R, NEW n, NEW P, Trade(O, c, F, R, n, P), NEW u, NEW t
  PROVE  ValueOf(P, Rests(P), u, t)
           = ValueOf(O, Rests(O), u, t) - ValueOf(O, F, u, t)
               + (IF u = c.who /\ t = PayToken(c.side) THEN Paid(c.side, R, c.price) ELSE 0)
<1>. DEFINE D == DOMAIN O
            E == DOMAIN P
            a == Value(P, Rests(P), u, t)
            b == Value(O, Rests(O), u, t)
            f == Value(O, F, u, t)
            r == IF u = c.who /\ t = PayToken(c.side) THEN Paid(c.side, R, c.price) ELSE 0
<1>0. /\ Open(O) /\ c \in Cmd /\ F = Fills(O, c) /\ R = Rest(O, c)
      /\ n \in Nat /\ n \notin DOMAIN O /\ P = OrdersAfter(O, c, F, R, n)
  BY DEF Trade
<1>1. \A i \in D : /\ F[i] \in Nat /\ F[i] <= O[i].rest /\ O[i].rest \in Nat /\ O[i].price \in Nat
                   /\ Rests(O)[i] = O[i].rest
  BY <1>0, FillsFacts, OrderFields DEF Rests
<1>2. R \in Nat /\ c.price \in Nat BY <1>0, RestFacts, CmdFields
<1>3. IsFiniteSet(D) BY <1>0 DEF Open
<1>4. E \in SUBSET (D \cup {n}) BY <1>0, AfterFields
<1>5. \A i \in D : b[i] \in Int /\ f[i] \in Int
  <2>1. \A i \in D : Rests(O)[i] \in Nat /\ F[i] \in Nat BY <1>1
  <2>2. \A i \in D : b[i] \in Nat BY <1>0, <2>1, ValueType
  <2>3. \A i \in D : f[i] \in Nat BY <1>0, <2>1, ValueType
  <2>. QED BY <2>2, <2>3
<1>6. \A i \in D : i \notin E => b[i] = f[i]
  <2>1. \A i \in D : i \notin E => F[i] = O[i].rest BY <1>0, AfterFields
  <2>. QED BY <1>1, <2>1 DEF Value
<1>7. ASSUME NEW i \in E, i # n PROVE a[i] = b[i] - f[i]
  <2>1. i \in D /\ F[i] # O[i].rest BY <1>0, <1>7, AfterFields
  <2>2. /\ P[i].rest = O[i].rest - F[i] /\ P[i].who = O[i].who
        /\ P[i].side = O[i].side /\ P[i].price = O[i].price
    BY <1>0, <2>1, AfterFields
  <2>3. Paid(O[i].side, O[i].rest - F[i], O[i].price)
          = Paid(O[i].side, O[i].rest, O[i].price) - Paid(O[i].side, F[i], O[i].price)
    BY <1>1, <2>1, PaidLinear
  <2>4. /\ a[i] = IF O[i].who = u /\ PayToken(O[i].side) = t
                  THEN Paid(O[i].side, O[i].rest - F[i], O[i].price) ELSE 0
        /\ b[i] = IF O[i].who = u /\ PayToken(O[i].side) = t
                  THEN Paid(O[i].side, O[i].rest, O[i].price) ELSE 0
        /\ f[i] = IF O[i].who = u /\ PayToken(O[i].side) = t
                  THEN Paid(O[i].side, F[i], O[i].price) ELSE 0
    BY <2>1, <2>2 DEF Value, Rests
  <2>. QED BY <2>3, <2>4
<1>8. (n \in E => a[n] = r) /\ (n \notin E => r = 0)
  <2>1. n \in E <=> R # 0 BY <1>0, AfterFields
  <2>2. R # 0 => P[n].who = c.who /\ P[n].side = c.side /\ P[n].price = c.price /\ P[n].rest = R
    BY <1>0, AfterFields
  <2>3. R = 0 => Paid(c.side, R, c.price) = 0 BY <1>2, PaidLinear
  <2>. QED BY <2>1, <2>2, <2>3 DEF Value, Rests
<1>9. r \in Int
  <2>1. Paid(c.side, R, c.price) \in Nat BY <1>2, PaidLinear
  <2>. QED BY <2>1
<1>. HIDE DEF a, b, f, r, D, E
<1>10. SumFunctionOnSet(a, E) = SumFunctionOnSet(b, D) - SumFunctionOnSet(f, D) + r
  <2>1. n \notin D BY <1>0 DEF D
  <2>. QED BY ONLY <1>3, <1>4, <1>5, <1>6, <1>7, <1>8, <1>9, <2>1, SumAfter
<1>. QED BY <1>10 DEF ValueOf, a, b, f, D, E, r

(* What was taken of a user's orders is what it gave, in the token that    *)
(* the taker gets; of the taker's own orders nothing was taken.            *)
LEMMA TakenValue ==
  ASSUME NEW O, NEW c, NEW F, NEW R, NEW n, NEW P, Trade(O, c, F, R, n, P), NEW u
  PROVE  /\ ValueOf(O, F, u, PayToken(c.side)) = 0
         /\ ValueOf(O, F, u, GetToken(c.side)) = IF u = c.who THEN 0 ELSE Given(O, c, F, u)
<1>. DEFINE D == DOMAIN O
            pay == PayToken(c.side)
            get == GetToken(c.side)
            x == Value(O, F, u, pay)
            y == Value(O, F, u, get)
            g == [i \in D |-> IF O[i].who = u THEN GotOf(O, c, F)[i] ELSE 0]
<1>0. Open(O) /\ c \in Cmd /\ F = Fills(O, c) BY DEF Trade
<1>1. IsFiniteSet(D) BY <1>0 DEF Open
<1>2. c.side \in {"ask", "bid"} BY <1>0, CmdFields
<1>3. \A i \in D : F[i] \in Nat /\ O[i].price \in Nat /\ O[i].side \in {"ask", "bid"}
  BY <1>0, FillsFacts, OrderFields
<1>4. \A i \in D : F[i] # 0 => i \in Crossing(O, c) /\ O[i].who # c.who BY <1>0, FillsFacts, ReachOrders
<1>5. \A i \in D : F[i] # 0 => O[i].side # c.side BY <1>4 DEF Crossing
<1>6. pay # get BY <1>2, TokensOf
<1>7. ASSUME NEW i \in D
      PROVE  /\ x[i] = 0 /\ y[i] \in Nat /\ (u = c.who => y[i] = 0)
             /\ u # c.who => y[i] = g[i]
  <2>1. /\ x[i] = IF O[i].who = u /\ PayToken(O[i].side) = pay THEN Paid(O[i].side, F[i], O[i].price) ELSE 0
        /\ y[i] = IF O[i].who = u /\ PayToken(O[i].side) = get THEN Paid(O[i].side, F[i], O[i].price) ELSE 0
        /\ g[i] = IF O[i].who = u THEN Got(c.side, F[i], O[i].price) ELSE 0
    BY DEF Value, GotOf
  <2>2. CASE F[i] = 0
    <3>1. Paid(O[i].side, F[i], O[i].price) = 0 BY <1>3, <2>2, PaidLinear
    <3>2. GotOf(O, c, F)[i] = 0 BY <1>0, <2>2, PaidFacts
    <3>3. Got(c.side, F[i], O[i].price) = 0 BY <3>2 DEF GotOf
    <3>. QED BY <2>1, <3>1, <3>3
  <2>3. CASE F[i] # 0
    <3>1. O[i].side # c.side /\ O[i].who # c.who BY <1>4, <1>5, <2>3
    <3>2. PayToken(O[i].side) = get BY <1>2, <1>3, <3>1 DEF PayToken, GetToken
    <3>3. Paid(O[i].side, F[i], O[i].price) = Got(c.side, F[i], O[i].price)
      BY <1>2, <1>3, <3>1 DEF Paid, Got
    <3>4. Paid(O[i].side, F[i], O[i].price) \in Nat BY <1>3, PaidLinear
    <3>. QED BY <1>6, <2>1, <3>1, <3>2, <3>3, <3>4
  <2>. QED BY <2>2, <2>3
<1>8. SumFunctionOnSet(x, D) = 0 BY <1>1, <1>7, SumZero
<1>9. u = c.who => SumFunctionOnSet(y, D) = 0 BY <1>1, <1>7, SumZero
<1>10. u # c.who => SumFunctionOnSet(y, D) = SumFunctionOnSet(g, D)
  <2>1. u # c.who => \A i \in D : y[i] = g[i] BY <1>7
  <2>2. \A i \in D : y[i] \in Int BY <1>7
  <2>. HIDE DEF y, g, D
  <2>. QED BY <1>1, <2>1, <2>2, SumAgree
<1>. QED BY <1>8, <1>9, <1>10 DEF ValueOf, Given

(* A trade the taker has the funds for leaves every account covered.       *)
LEMMA TradeCovered ==
  ASSUME NEW O, NEW c, NEW F, NEW R, NEW n, NEW P, Trade(O, c, F, R, n, P),
         NEW acc \in Accounts, Covered(O, acc), HasFunds(acc, c),
         NEW new, new = AccountsAfter(acc, O, c, F, R)
  PROVE  Covered(P, new)
<1>. DEFINE pay == PayToken(c.side)
            get == GetToken(c.side)
            kept == Paid(c.side, R, c.price)
            paid == TotalPaid(O, c, F)
            got == TotalGot(O, c, F)
            fee == mul_ceil(c.taker_fee, got)
            old(u, t) == ValueOf(O, Rests(O), u, t)
            aft(u, t) == ValueOf(P, Rests(P), u, t)
<1>0. Open(O) /\ c \in Cmd /\ F = Fills(O, c) /\ R = Rest(O, c) BY DEF Trade
<1>1. /\ kept \in Nat
      /\ new[c.who][pay].available = acc[c.who][pay].available - (paid + kept)
      /\ new[c.who][pay].frozen = acc[c.who][pay].frozen + kept
      /\ new[c.who][get].available = acc[c.who][get].available + (got - fee)
      /\ new[c.who][get].frozen = acc[c.who][get].frozen
      /\ \A u \in User \ {c.who} :
           /\ new[u][pay].available = acc[u][pay].available + Received(O, c, F, u)
           /\ new[u][pay].frozen = acc[u][pay].frozen
           /\ new[u][get].available = acc[u][get].available
           /\ new[u][get].frozen = acc[u][get].frozen - Given(O, c, F, u)
  BY AccountsFacts
<1>2. /\ c.side \in {"ask", "bid"} /\ c.who \in User /\ c.taker_fee \in Nat /\ c.taker_fee <= Parts
  BY <1>0, CmdFields
<1>3. pay \in Token /\ get \in Token /\ pay # get /\ \A t \in Token : t = pay \/ t = get BY <1>2, TokensOf
<1>4. \A u \in User, t \in Token : /\ acc[u][t].available \in Nat
                                   /\ acc[u][t].frozen = old(u, t)
  BY DEF Covered
<1>5. paid \in Nat /\ got \in Nat BY <1>0, PaidFacts
<1>6. fee \in Nat /\ fee <= got BY <1>2, <1>5, MulCeilType, MulCeilBelow
<1>7. paid + kept <= acc[c.who][pay].available
  <2>. DEFINE most == Paid(c.side, c.amount, c.price)
  <2>1. most \in Nat /\ paid + kept <= most BY <1>0, TradeCost
  <2>2. acc[c.who][pay].available >= most BY DEF HasFunds
  <2>3. acc[c.who][pay].available \in Nat BY <1>2, <1>3, <1>4
  <2>. HIDE DEF most, paid, kept
  <2>. QED BY <1>1, <1>5, <2>1, <2>2, <2>3
<1>8. \A u : Received(O, c, F, u) \in Nat /\ Given(O, c, F, u) \in Nat BY <1>0, MakersReceive
<1>9. \A u, t : aft(u, t) = old(u, t) - ValueOf(O, F, u, t) + (IF u = c.who /\ t = pay THEN kept ELSE 0)
  BY AfterValue
<1>10. \A u, t : old(u, t) \in Nat
  <2>1. \A i \in DOMAIN O : Rests(O)[i] \in Nat BY <1>0, OrderFields DEF Rests
  <2>. QED BY <1>0, <2>1, ValueType
<1>11. \A u : /\ ValueOf(O, F, u, pay) = 0
              /\ ValueOf(O, F, u, get) = IF u = c.who THEN 0 ELSE Given(O, c, F, u)
  BY TakenValue
<1>. HIDE DEF pay, get, kept, paid, got, fee, old, aft
<1>12. aft(c.who, pay) = old(c.who, pay) + kept /\ aft(c.who, get) = old(c.who, get)
  <2>1. aft(c.who, pay) = old(c.who, pay) - 0 + kept BY <1>9, <1>11
  <2>2. aft(c.who, get) = old(c.who, get) - 0 + 0 BY <1>3, <1>9, <1>11
  <2>. QED BY <1>1, <1>10, <2>1, <2>2
<1>13. ASSUME NEW u \in User \ {c.who}
       PROVE  aft(u, pay) = old(u, pay) /\ aft(u, get) = old(u, get) - Given(O, c, F, u)
  <2>1. aft(u, pay) = old(u, pay) - 0 + 0 BY <1>9, <1>11
  <2>2. aft(u, get) = old(u, get) - Given(O, c, F, u) + 0 BY <1>9, <1>11
  <2>. QED BY <1>8, <1>10, <2>1, <2>2
<1>14. ASSUME NEW u \in User, NEW t \in Token
       PROVE  new[u][t].available \in Nat /\ new[u][t].frozen = aft(u, t)
  <2>1. CASE u = c.who /\ t = pay BY <1>1, <1>4, <1>5, <1>7, <1>12, <2>1
  <2>2. CASE u = c.who /\ t = get BY <1>1, <1>4, <1>5, <1>6, <1>12, <2>2
  <2>3. CASE u # c.who /\ t = pay BY <1>1, <1>4, <1>8, <1>13, <2>3
  <2>4. CASE u # c.who /\ t = get BY <1>1, <1>4, <1>13, <2>4
  <2>. QED BY <1>3, <2>1, <2>2, <2>3, <2>4
<1>. QED BY <1>14 DEF Covered, aft

-----------------------------------------------------------------------------
(* What the matcher proves to the chain for an order it executed.          *)
TradeProof(O, c, F, R, P, acc) ==
  [cmd |-> c, makers |-> {O[i].who : i \in Filled(F)}, pages |-> PagesOf(O, c, F, R),
   at |-> {O[i].price : i \in Filled(F)}, old |-> Tree(O, acc),
   new |-> Tree(P, AccountsAfter(acc, O, c, F, R))]

(* The fields of such a proof, read as operators on the open orders.       *)
LEMMA TradeFields ==
  ASSUME NEW O, NEW c, NEW F, NEW R, NEW P, NEW acc, NEW p, p = TradeProof(O, c, F, R, P, acc)
  PROVE  /\ p.cmd = c /\ p.makers = Makers(O, F) /\ p.pages = PagesOf(O, c, F, R)
         /\ p.at = {O[i].price : i \in Filled(F)}
         /\ p.old = Tree(O, acc) /\ p.new = Tree(P, AccountsAfter(acc, O, c, F, R))
BY DEF TradeProof, Makers

(* A tree's leaves.                                                        *)
LEMMA TreeFields ==
  ASSUME NEW O, NEW acc, NEW x, x = Tree(O, acc)
  PROVE  /\ \A s \in {"ask", "bid"} : x.size[s] = SizeOf(O, s) /\ x.best[s] = BestOf(O, s)
         /\ \A y \in Price : x.page[y] = PageOf(O, y)
         /\ x.account = acc
         /\ \A u, t : AccountSum(x, u, t) = SumAt(acc, u, t)
<1>1. /\ \A s \in {"ask", "bid"} : x.size[s] = SizeOf(O, s) /\ x.best[s] = BestOf(O, s)
      /\ x.account = acc
  BY DEF Tree, Side
<1>2. \A y \in Price : x.page[y] = PageOf(O, y) BY DEF Tree
<1>3. \A u, t : AccountSum(x, u, t) = SumAt(acc, u, t) BY <1>1 DEF AccountSum, SumAt
<1>. QED BY <1>1, <1>2, <1>3

PagesOpened(O, P, q, L, p) ==
  /\ \A k \in 1..L : p.old.page[q[k]] = PageOf(O, q[k]) /\ p.new.page[q[k]] = PageOf(P, q[k])
  /\ LastPage(p) = q[L] /\ FirstPages(p) = 1..(L - 1)
  /\ L # 0 => /\ LastOld(p) = PageOf(O, q[L]) /\ LastNew(p) = PageOf(P, q[L])
              /\ TakenBefore(p) = PagesSum(O, q)

(* The pages such a proof opens.                                           *)
LEMMA TradePages ==
  ASSUME NEW O, NEW c, NEW F, NEW R, NEW n, NEW P, Trade(O, c, F, R, n, P), NEW acc,
         NEW q, q = PagesOf(O, c, F, R), NEW L, L = Len(q),
         NEW p, p = TradeProof(O, c, F, R, P, acc)
  PROVE  PagesOpened(O, P, q, L, p)
<1>1. p.pages = q /\ p.old = Tree(O, acc) /\ p.new = Tree(P, AccountsAfter(acc, O, c, F, R)) BY TradeFields
<1>2. \A x \in Price : p.old.page[x] = PageOf(O, x) /\ p.new.page[x] = PageOf(P, x) BY ONLY <1>1, TreeFields
<1>3. L \in Nat /\ \A k \in 1..L : q[k] \in Price
  <2>1. L \in Nat /\ q \in [1..L -> Touched(O, c, F, R)] BY PagesOrder
  <2>2. Touched(O, c, F, R) \subseteq Price BY TouchedFacts
  <2>. QED BY <2>1, <2>2
<1>4. \A k \in 1..L : p.old.page[q[k]] = PageOf(O, q[k]) /\ p.new.page[q[k]] = PageOf(P, q[k])
  BY <1>2, <1>3
<1>5. LastPage(p) = q[L] /\ FirstPages(p) = 1..(L - 1) BY <1>1 DEF LastPage, FirstPages
<1>6. ASSUME L # 0
      PROVE  /\ LastOld(p) = PageOf(O, q[L]) /\ LastNew(p) = PageOf(P, q[L])
             /\ TakenBefore(p) = PagesSum(O, q)
  <2>1. L \in 1..L BY <1>3, <1>6
  <2>2. LastOld(p) = PageOf(O, q[L]) /\ LastNew(p) = PageOf(P, q[L])
    BY <1>4, <1>5, <2>1 DEF LastOld, LastNew
  <2>3. [i \in FirstPages(p) |-> p.old.page[p.pages[i]]] = [k \in 1..(Len(q) - 1) |-> PageOf(O, q[k])]
    <3>1. \A k \in 1..(L - 1) : k \in 1..L BY <1>3
    <3>2. \A k \in 1..(L - 1) : p.old.page[p.pages[k]] = PageOf(O, q[k]) BY ONLY <1>1, <1>4, <3>1
    <3>3. [i \in FirstPages(p) |-> p.old.page[p.pages[i]]] = [k \in 1..(L - 1) |-> p.old.page[p.pages[k]]]
      BY ONLY <1>5
    <3>. QED BY ONLY <3>2, <3>3, L = Len(q)
  <2>. QED BY ONLY <2>2, <2>3 DEF TakenBefore, PagesSum
<1>. QED BY <1>4, <1>5, <1>6 DEF PagesOpened

(* What a proof says each account gained: the taker pays "paid" and gets   *)
(* "got" less its fee, the makers together get "paid" less theirs and give *)
(* "got", and nobody else has more or less than before.                    *)
Deltas(p, pay, get, paid, got) ==
  /\ paid \in Nat /\ got \in Nat /\ BothTokens(pay, get)
  /\ p.cmd.who \in User /\ p.makers \subseteq User /\ IsFiniteSet(p.makers) /\ p.cmd.who \notin p.makers
  /\ p.makers = {} => paid = 0 /\ got = 0
  /\ \A u \in User, t \in Token : Gain(p, u, t) \in Int
  /\ Gain(p, p.cmd.who, pay) = -paid
  /\ Gain(p, p.cmd.who, get) = got - mul_ceil(p.cmd.taker_fee, got)
  /\ SumFunctionOnSet([u \in p.makers |-> Gain(p, u, pay)], p.makers)
       = paid - mul_ceil(p.cmd.maker_fee, paid)
  /\ SumFunctionOnSet([u \in p.makers |-> Loss(p, u, get)], p.makers) = got
  /\ \A u \in User \ {p.cmd.who} : u \notin p.makers => Gain(p, u, pay) = 0 /\ Gain(p, u, get) = 0

(* A trade that takes nothing moves nothing.                               *)
LEMMA NothingPaid ==
  ASSUME NEW O, Open(O), NEW c \in Cmd, NEW F, F = Fills(O, c), Filled(F) = {}
  PROVE  TotalPaid(O, c, F) = 0 /\ TotalGot(O, c, F) = 0 /\ SumFunctionOnSet(F, DOMAIN O) = 0
<1>1. \A i \in DOMAIN O : F[i] = 0 BY FilledFacts
<1>2. \A i \in DOMAIN O : PaidOf(O, c, F)[i] = 0 /\ GotOf(O, c, F)[i] = 0 BY <1>1, PaidFacts
<1>3. IsFiniteSet(DOMAIN O) BY DEF Open
<1>4. TotalPaid(O, c, F) = 0 BY <1>2, <1>3, SumZero DEF TotalPaid
<1>5. TotalGot(O, c, F) = 0 BY <1>2, <1>3, SumZero DEF TotalGot
<1>. QED BY <1>1, <1>3, <1>4, <1>5, SumZero

(* A trade changes the accounts by exactly what is paid, got and charged.  *)
LEMMA TradeDeltas ==
  ASSUME NEW O, NEW c, NEW F, NEW R, NEW n, NEW P, Trade(O, c, F, R, n, P), NEW acc \in Accounts,
         NEW p, p = TradeProof(O, c, F, R, P, acc)
  PROVE  Deltas(p, PayToken(c.side), GetToken(c.side), TotalPaid(O, c, F), TotalGot(O, c, F))
<1>. DEFINE pay == PayToken(c.side)
            get == GetToken(c.side)
            new == AccountsAfter(acc, O, c, F, R)
            paid == TotalPaid(O, c, F)
            got == TotalGot(O, c, F)
            M == Makers(O, F)
<1>0. Open(O) /\ c \in Cmd /\ F = Fills(O, c) BY DEF Trade
<1>1. p.cmd = c /\ p.makers = M
      /\ \A u, t : AccountSum(p.old, u, t) = SumAt(acc, u, t) /\ AccountSum(p.new, u, t) = SumAt(new, u, t)
  <2>1. p.cmd = c /\ p.makers = M /\ p.old = Tree(O, acc) /\ p.new = Tree(P, new) BY TradeFields
  <2>. QED BY ONLY <2>1, TreeFields
<1>2. \A u, t : Gain(p, u, t) = SumAt(new, u, t) - SumAt(acc, u, t) BY <1>1 DEF Gain
<1>3. c.side \in {"ask", "bid"} /\ c.who \in User /\ c.taker_fee \in Nat /\ c.maker_fee \in Nat BY <1>0, CmdFields
<1>4. BothTokens(pay, get) BY <1>3, TokensOf DEF BothTokens
<1>5. paid \in Nat /\ got \in Nat BY <1>0, PaidFacts
<1>6. /\ IsFiniteSet(M) /\ M \subseteq User /\ c.who \notin M /\ (M = {} => Filled(F) = {})
      /\ \A u : Received(O, c, F, u) \in Int /\ Given(O, c, F, u) \in Int
      /\ \A u : u \notin M => Received(O, c, F, u) = 0 /\ Given(O, c, F, u) = 0
      /\ SumFunctionOnSet([u \in M |-> Received(O, c, F, u)], M) = paid - mul_ceil(c.maker_fee, paid)
      /\ SumFunctionOnSet([u \in M |-> Given(O, c, F, u)], M) = got
  BY <1>0, MakersFacts
<1>7. /\ new \in Accounts
      /\ SumAt(new, c.who, pay) = SumAt(acc, c.who, pay) - paid
      /\ SumAt(new, c.who, get) = SumAt(acc, c.who, get) + (got - mul_ceil(c.taker_fee, got))
      /\ \A u \in User \ {c.who} :
           /\ SumAt(new, u, pay) = SumAt(acc, u, pay) + Received(O, c, F, u)
           /\ SumAt(new, u, get) = SumAt(acc, u, get) - Given(O, c, F, u)
  BY AccountsFacts
<1>8. mul_ceil(c.taker_fee, got) \in Nat /\ mul_ceil(c.maker_fee, paid) \in Nat BY <1>3, <1>5, MulCeilType
<1>9. \A u \in User, t \in Token : SumAt(acc, u, t) \in Int /\ SumAt(new, u, t) \in Int
  <2>1. \A x \in Accounts : \A u \in User, t \in Token : SumAt(x, u, t) \in Int BY DEF Accounts, Leaf, SumAt
  <2>. QED BY <1>7, <2>1
<1>10. pay \in Token /\ get \in Token BY <1>4 DEF BothTokens
<1>11. M = {} => paid = 0 /\ got = 0 BY <1>0, <1>6, NothingPaid
<1>. HIDE DEF pay, get, paid, got, M, new
<1>12. \A u \in User, t \in Token : Gain(p, u, t) \in Int BY <1>2, <1>9
<1>13. Gain(p, c.who, pay) = -paid /\ Gain(p, c.who, get) = got - mul_ceil(c.taker_fee, got)
  BY <1>2, <1>3, <1>5, <1>7, <1>8, <1>9, <1>10
<1>14. \A u \in User \ {c.who} : /\ Gain(p, u, pay) = Received(O, c, F, u)
                                 /\ Gain(p, u, get) = -Given(O, c, F, u)
  BY <1>2, <1>6, <1>7, <1>9, <1>10
<1>15. [u \in M |-> Gain(p, u, pay)] = [u \in M |-> Received(O, c, F, u)] BY <1>6, <1>14
<1>16. [u \in M |-> Loss(p, u, get)] = [u \in M |-> Given(O, c, F, u)]
  <2>1. \A u \in M : Loss(p, u, get) = Given(O, c, F, u) BY <1>6, <1>14 DEF Loss
  <2>. QED BY <2>1
<1>17. \A u \in User \ {c.who} : u \notin M => Gain(p, u, pay) = 0 /\ Gain(p, u, get) = 0 BY <1>6, <1>14
<1>. QED BY <1>1, <1>3, <1>4, <1>5, <1>6, <1>11, <1>12, <1>13, <1>15, <1>16, <1>17
       DEF Deltas, pay, get, paid, got

(* What the chain knows of the accounts when a proof's turn comes.         *)
Matches(res, tree) == \A u \in User, t \in Token : res[u][t] = AccountSum(tree, u, t)

(* The count of leaves, a byte, is right when there are few enough.        *)
LEMMA LeavesCounted ==
  ASSUME NEW p, IsFiniteSet(p.makers), Len(p.pages) \in Nat, Leaves(p) < U8
  PROVE  Leaves(p) = leaves_count(p)
<1>1. Cardinality(p.makers) \in Nat BY FS_CardinalityType
<1>2. Leaves(p) \in Nat BY <1>1 DEF Leaves
<1>3. U8 \in Nat BY ClearingAssumption
<1>. QED BY <1>2, <1>3 DEF leaves_count

(* The leaves of pages and sizes of an ask pass.                           *)
LEMMA AskPagesPass ==
  ASSUME NEW O, NEW c, NEW F, NEW R, NEW n, NEW P, Trade(O, c, F, R, n, P), c.side = "ask",
         NEW acc, NEW p, p = TradeProof(O, c, F, R, P, acc),
         NEW T, T = SumFunctionOnSet(F, DOMAIN O)
  PROVE  AskPages(p, R, T, T)
<1>. DEFINE q == PagesOf(O, c, F, R)
            L == Len(q)
<1>0. Open(O) /\ c \in Cmd /\ F = Fills(O, c) /\ R = Rest(O, c) BY DEF Trade
<1>1. T \in Nat /\ (T = 0 <=> Filled(F) = {}) BY <1>0, RestFacts, FilledFacts
<1>2. R \in Nat /\ (R # 0 => T + R = c.amount) BY <1>0, RestFacts
<1>3. /\ L \in Nat /\ (L = 0 <=> Filled(F) = {} /\ R = 0)
      /\ \A i, j \in 1..L : i < j => Better(c.side, q[i], q[j])
      /\ R # 0 => L # 0 /\ q[L] = c.price
      /\ q \in [1..L -> Touched(O, c, F, R)]
  BY PagesOrder
<1>4. /\ p.cmd = c /\ p.pages = q
      /\ p.old.best["bid"] = BestOf(O, "bid") /\ p.new.best["bid"] = BestOf(P, "bid")
      /\ p.old.best["ask"] = BestOf(O, "ask") /\ p.new.best["ask"] = BestOf(P, "ask")
      /\ \A k \in 1..L : p.new.page[q[k]] = PageOf(P, q[k])
      /\ LastPage(p) = q[L] /\ FirstPages(p) = 1..(L - 1)
      /\ L # 0 => LastOld(p) = PageOf(O, q[L]) /\ LastNew(p) = PageOf(P, q[L])
                  /\ TakenBefore(p) = PagesSum(O, q)
  <2>1. p.cmd = c /\ p.pages = q /\ p.old = Tree(O, acc) /\ p.new = Tree(P, AccountsAfter(acc, O, c, F, R))
    BY TradeFields
  <2>2. /\ p.old.best["bid"] = BestOf(O, "bid") /\ p.new.best["bid"] = BestOf(P, "bid")
        /\ p.old.best["ask"] = BestOf(O, "ask") /\ p.new.best["ask"] = BestOf(P, "ask")
    BY ONLY <2>1, TreeFields
  <2>3. PagesOpened(O, P, q, L, p)
    <3>1. q = PagesOf(O, c, F, R) /\ L = Len(q) OBVIOUS
    <3>. HIDE DEF q, L
    <3>. QED BY ONLY <3>1, Trade(O, c, F, R, n, P), p = TradeProof(O, c, F, R, P, acc), TradePages
  <2>. HIDE DEF q, L
  <2>. QED BY ONLY <2>1, <2>2, <2>3 DEF PagesOpened
<1>5. DOMAIN p.pages = 1..L BY <1>3, <1>4
<1>6. L # 0 => p.pages # <<>>
  <2>1. L # 0 => DOMAIN p.pages # {} BY <1>3, <1>5
  <2>. QED BY <2>1
<1>. HIDE DEF q, L
<1>7. \A k \in 1..L : PageOf(O, q[k]) \in Int /\ PageOf(P, q[k]) \in Int
  <2>1. \A x : PageOf(O, x) \in Int /\ PageOf(P, x) \in Int
    <3>1. Open(O) /\ R = Rest(O, c) /\ n \in Nat /\ n \notin DOMAIN O /\ P = OrdersAfter(O, c, F, R, n) BY DEF Trade
    <3>2. SUFFICES ASSUME NEW x PROVE PageOf(O, x) \in Int /\ PageOf(P, x) \in Int OBVIOUS
    <3>3. /\ PageOf(O, x) \in Int /\ Chosen(F, DOMAIN O, AtPrice(O, x)) \in Int
          /\ PageOf(P, x) = PageOf(O, x) - Chosen(F, DOMAIN O, AtPrice(O, x)) + (IF x = c.price THEN R ELSE 0)
      BY <1>0, <3>1, AfterPage
    <3>. QED BY <1>2, <3>3
  <2>. QED BY <2>1
<1>8. CASE Filled(F) # {}
  <2>1. /\ c.price <= BestOf(O, "bid")
        /\ \A k \in 1..L : q[k] \in Nat /\ q[k] <= BestOf(O, "bid")
        /\ q[L] >= BestOf(P, "bid") /\ L # 0
        /\ R # 0 => BestOf(P, "ask") = c.price
    BY <1>8, BestOfTaken DEF q, L
  <2>2. PagesSum(O, q) + PageOf(O, q[L]) - PageOf(P, q[L]) = T - R BY <2>1, PagesTaken DEF q, L
  <2>3. BestOf(O, "bid") \in Nat BY <1>0, BestFacts
  <2>4. Descending(p)
    <3>1. \A i, j \in 1..L : i < j => q[i] > q[j] BY <1>3 DEF Better
    <3>2. \A i \in 1..L : i # 1 => i - 1 \in 1..L /\ i - 1 < i BY <1>3
    <3>. QED BY <1>4, <1>5, <2>1, <2>3, <3>1, <3>2 DEF Descending
  <2>5. Emptied(p)
    <3>1. \A k \in 1..(L - 1) : k \in 1..L BY <1>3
    <3>2. \A k \in 1..(L - 1) : PageOf(P, q[k]) = 0 BY PagesEmptied DEF q, L
    <3>. QED BY <1>4, <3>1, <3>2 DEF Emptied
  <2>6. L \in 1..L BY <1>3, <2>1
  <2>7. PagesSum(O, q) + PageOf(O, q[L]) - PageOf(P, q[L]) \in Int /\ PageOf(O, q[L]) \in Int /\ PageOf(P, q[L]) \in Int
    <3>1. PageOf(O, q[L]) \in Int /\ PageOf(P, q[L]) \in Int BY ONLY <1>7, <2>6
    <3>2. T - R \in Int BY <1>1, <1>2
    <3>. QED BY ONLY <2>2, <3>1, <3>2
  <2>8. PagesSum(O, q) \in Int
    <3>1. \A k \in 1..(L - 1) : k \in 1..L BY <1>3
    <3>2. \A k \in 1..(L - 1) : PageOf(O, q[k]) \in Int BY <1>7, <3>1
    <3>3. L - 1 \in Int BY <1>3
    <3>4. IsFiniteSet(1..(L - 1)) BY <3>3, FS_Interval
    <3>5. [k \in 1..(L - 1) |-> PageOf(O, q[k])] \in [1..(L - 1) -> Int] BY <3>2
    <3>6. SumFunction([k \in 1..(L - 1) |-> PageOf(O, q[k])]) \in Int BY <3>4, <3>5, TotalInt
    <3>. QED BY <3>6 DEF PagesSum, L
  <2>9. CASE R # 0
    <3>1. PageOf(P, c.price) = R BY <1>8, <2>9, PageOfRest
    <3>2. TakenBefore(p) + LastOld(p) + LastNew(p) = c.amount
      <4>1. /\ TakenBefore(p) = PagesSum(O, q) /\ LastOld(p) = PageOf(O, q[L]) /\ LastNew(p) = PageOf(P, q[L])
        BY ONLY <1>4, <2>1
      <4>2. PageOf(P, q[L]) = R /\ T + R = c.amount /\ T \in Int /\ R \in Int BY <1>1, <1>2, <1>3, <2>9, <3>1
      <4>3. ASSUME NEW x \in Int, NEW y \in Int, NEW z \in Int, NEW t \in Int, x + y - z = t - z
            PROVE  x + y + z = t + z
        BY ONLY <4>3
      <4>4. PagesSum(O, q) + PageOf(O, q[L]) - PageOf(P, q[L]) = T - PageOf(P, q[L]) BY ONLY <2>2, <4>2
      <4>5. PagesSum(O, q) + PageOf(O, q[L]) + PageOf(P, q[L]) = T + PageOf(P, q[L])
        <5>1. PagesSum(O, q) \in Int /\ PageOf(O, q[L]) \in Int /\ PageOf(P, q[L]) \in Int /\ T \in Int
          BY ONLY <2>7, <2>8, <4>2
        <5>. QED BY ONLY <4>3, <4>4, <5>1
      <4>. QED BY ONLY <4>1, <4>2, <4>5
    <3>. QED BY <1>1, <1>3, <1>4, <1>6, <1>8, <2>1, <2>4, <2>5, <2>9, <3>2 DEF AskPages
  <2>10. CASE R = 0
    <3>1. BestOf(P, "ask") = BestOf(O, "ask") BY <2>10, BestKept
    <3>2. T = TakenBefore(p) + LastOld(p) - LastNew(p)
      BY <1>1, <1>4, <2>1, <2>2, <2>7, <2>8, <2>10
    <3>. QED BY <1>1, <1>3, <1>4, <1>6, <1>8, <2>1, <2>4, <2>5, <2>10, <3>1, <3>2 DEF AskPages
  <2>. QED BY <2>9, <2>10
<1>9. CASE Filled(F) = {}
  <2>1. BestOf(P, "bid") = BestOf(O, "bid") BY <1>9, BestKept DEF OtherSide
  <2>2. R # 0 => /\ L = 1 /\ q[L] = c.price
                 /\ PageOf(P, c.price) - PageOf(O, c.price) = c.amount
                 /\ c.price > BestOf(P, "bid")
    <3>1. q = PagesOf(O, c, F, R) /\ L = Len(q) BY DEF q, L
    <3>. QED BY <1>9, <3>1, NothingTaken
  <2>. QED BY <1>1, <1>4, <1>6, <1>9, <2>1, <2>2 DEF AskPages
<1>. QED BY <1>8, <1>9

(* The leaves of pages and sizes of a bid pass.                            *)
LEMMA BidPagesPass ==
  ASSUME NEW O, NEW c, NEW F, NEW R, NEW n, NEW P, Trade(O, c, F, R, n, P), c.side = "bid",
         NEW acc, NEW p, p = TradeProof(O, c, F, R, P, acc),
         NEW T, T = SumFunctionOnSet(F, DOMAIN O)
  PROVE  BidPages(p, T, R, T)
<1>. DEFINE q == PagesOf(O, c, F, R)
            L == Len(q)
<1>0. Open(O) /\ c \in Cmd /\ F = Fills(O, c) /\ R = Rest(O, c) BY DEF Trade
<1>1. T \in Nat /\ (T = 0 <=> Filled(F) = {}) BY <1>0, RestFacts, FilledFacts
<1>2. R \in Nat /\ (R # 0 => T + R = c.amount) BY <1>0, RestFacts
<1>3. /\ L \in Nat /\ (L = 0 <=> Filled(F) = {} /\ R = 0)
      /\ \A i, j \in 1..L : i < j => Better(c.side, q[i], q[j])
      /\ R # 0 => L # 0 /\ q[L] = c.price
      /\ q \in [1..L -> Touched(O, c, F, R)]
  BY PagesOrder
<1>4. /\ p.cmd = c /\ p.pages = q
      /\ p.old.best["bid"] = BestOf(O, "bid") /\ p.new.best["bid"] = BestOf(P, "bid")
      /\ p.old.best["ask"] = BestOf(O, "ask") /\ p.new.best["ask"] = BestOf(P, "ask")
      /\ \A k \in 1..L : p.new.page[q[k]] = PageOf(P, q[k])
      /\ LastPage(p) = q[L] /\ FirstPages(p) = 1..(L - 1)
      /\ L # 0 => LastOld(p) = PageOf(O, q[L]) /\ LastNew(p) = PageOf(P, q[L])
                  /\ TakenBefore(p) = PagesSum(O, q)
  <2>1. p.cmd = c /\ p.pages = q /\ p.old = Tree(O, acc) /\ p.new = Tree(P, AccountsAfter(acc, O, c, F, R))
    BY TradeFields
  <2>2. /\ p.old.best["bid"] = BestOf(O, "bid") /\ p.new.best["bid"] = BestOf(P, "bid")
        /\ p.old.best["ask"] = BestOf(O, "ask") /\ p.new.best["ask"] = BestOf(P, "ask")
    BY ONLY <2>1, TreeFields
  <2>3. PagesOpened(O, P, q, L, p)
    <3>1. q = PagesOf(O, c, F, R) /\ L = Len(q) OBVIOUS
    <3>. HIDE DEF q, L
    <3>. QED BY ONLY <3>1, Trade(O, c, F, R, n, P), p = TradeProof(O, c, F, R, P, acc), TradePages
  <2>. HIDE DEF q, L
  <2>. QED BY ONLY <2>1, <2>2, <2>3 DEF PagesOpened
<1>5. DOMAIN p.pages = 1..L BY <1>3, <1>4
<1>6. L # 0 => p.pages # <<>>
  <2>1. L # 0 => DOMAIN p.pages # {} BY <1>3, <1>5
  <2>. QED BY <2>1
<1>. HIDE DEF q, L
<1>7. \A k \in 1..L : PageOf(O, q[k]) \in Int /\ PageOf(P, q[k]) \in Int
  <2>1. \A x : PageOf(O, x) \in Int /\ PageOf(P, x) \in Int
    <3>1. Open(O) /\ R = Rest(O, c) /\ n \in Nat /\ n \notin DOMAIN O /\ P = OrdersAfter(O, c, F, R, n) BY DEF Trade
    <3>2. SUFFICES ASSUME NEW x PROVE PageOf(O, x) \in Int /\ PageOf(P, x) \in Int OBVIOUS
    <3>3. /\ PageOf(O, x) \in Int /\ Chosen(F, DOMAIN O, AtPrice(O, x)) \in Int
          /\ PageOf(P, x) = PageOf(O, x) - Chosen(F, DOMAIN O, AtPrice(O, x)) + (IF x = c.price THEN R ELSE 0)
      BY <1>0, <3>1, AfterPage
    <3>. QED BY <1>2, <3>3
  <2>. QED BY <2>1
<1>8. CASE Filled(F) # {}
  <2>1. /\ c.price >= BestOf(O, "ask") /\ L # 0
        /\ \A k \in 1..L : q[k] \in Nat /\ q[k] >= BestOf(O, "ask")
        /\ R # 0 => BestOf(P, "bid") = c.price
    BY <1>8, BestOfTaken DEF q, L
  <2>2. PagesSum(O, q) + PageOf(O, q[L]) - PageOf(P, q[L]) = T - R BY <2>1, PagesTaken DEF q, L
  <2>3. BestOf(O, "ask") \in Nat BY <1>0, BestFacts
  <2>4. Ascending(p)
    <3>1. \A i, j \in 1..L : i < j => q[i] < q[j] BY <1>3 DEF Better
    <3>2. \A i \in 1..(L - 1) : i \in 1..L /\ (i # 1 => i - 1 \in 1..L /\ i - 1 < i) BY <1>3
    <3>. QED BY <1>4, <1>5, <2>1, <2>3, <3>1, <3>2 DEF Ascending
  <2>5. Emptied(p)
    <3>1. \A k \in 1..(L - 1) : k \in 1..L BY <1>3
    <3>2. \A k \in 1..(L - 1) : PageOf(P, q[k]) = 0 BY PagesEmptied DEF q, L
    <3>. QED BY <1>4, <3>1, <3>2 DEF Emptied
  <2>6. L \in 1..L BY <1>3, <2>1
  <2>7. PagesSum(O, q) + PageOf(O, q[L]) - PageOf(P, q[L]) \in Int /\ PageOf(O, q[L]) \in Int /\ PageOf(P, q[L]) \in Int
    <3>1. PageOf(O, q[L]) \in Int /\ PageOf(P, q[L]) \in Int BY ONLY <1>7, <2>6
    <3>2. T - R \in Int BY <1>1, <1>2
    <3>. QED BY ONLY <2>2, <3>1, <3>2
  <2>8. PagesSum(O, q) \in Int
    <3>1. \A k \in 1..(L - 1) : k \in 1..L BY <1>3
    <3>2. \A k \in 1..(L - 1) : PageOf(O, q[k]) \in Int BY <1>7, <3>1
    <3>3. L - 1 \in Int BY <1>3
    <3>4. IsFiniteSet(1..(L - 1)) BY <3>3, FS_Interval
    <3>5. [k \in 1..(L - 1) |-> PageOf(O, q[k])] \in [1..(L - 1) -> Int] BY <3>2
    <3>6. SumFunction([k \in 1..(L - 1) |-> PageOf(O, q[k])]) \in Int BY <3>4, <3>5, TotalInt
    <3>. QED BY <3>6 DEF PagesSum, L
  <2>9. CASE R # 0
    <3>1. PageOf(P, c.price) = R BY <1>8, <2>9, PageOfRest
    <3>2. TakenBefore(p) + LastOld(p) + LastNew(p) = c.amount
      <4>1. /\ TakenBefore(p) = PagesSum(O, q) /\ LastOld(p) = PageOf(O, q[L]) /\ LastNew(p) = PageOf(P, q[L])
        BY ONLY <1>4, <2>1
      <4>2. PageOf(P, q[L]) = R /\ T + R = c.amount /\ T \in Int /\ R \in Int BY <1>1, <1>2, <1>3, <2>9, <3>1
      <4>3. ASSUME NEW x \in Int, NEW y \in Int, NEW z \in Int, NEW t \in Int, x + y - z = t - z
            PROVE  x + y + z = t + z
        BY ONLY <4>3
      <4>4. PagesSum(O, q) + PageOf(O, q[L]) - PageOf(P, q[L]) = T - PageOf(P, q[L]) BY ONLY <2>2, <4>2
      <4>5. PagesSum(O, q) + PageOf(O, q[L]) + PageOf(P, q[L]) = T + PageOf(P, q[L])
        <5>1. PagesSum(O, q) \in Int /\ PageOf(O, q[L]) \in Int /\ PageOf(P, q[L]) \in Int /\ T \in Int
          BY ONLY <2>7, <2>8, <4>2
        <5>. QED BY ONLY <4>3, <4>4, <5>1
      <4>. QED BY ONLY <4>1, <4>2, <4>5
    <3>. QED BY <1>1, <1>3, <1>4, <1>6, <1>8, <2>1, <2>4, <2>5, <2>9, <3>2 DEF BidPages
  <2>10. CASE R = 0
    <3>1. BestOf(P, "bid") = BestOf(O, "bid") BY <2>10, BestKept
    <3>2. T = TakenBefore(p) + LastOld(p) - LastNew(p)
      BY <1>1, <1>4, <2>1, <2>2, <2>7, <2>8, <2>10
    <3>. QED BY <1>1, <1>3, <1>4, <1>6, <1>8, <2>1, <2>4, <2>5, <2>10, <3>1, <3>2 DEF BidPages
  <2>. QED BY <2>9, <2>10
<1>9. CASE Filled(F) = {}
  <2>1. BestOf(P, "ask") = BestOf(O, "ask") BY <1>9, BestKept DEF OtherSide
  <2>2. R # 0 => /\ L = 1 /\ q[L] = c.price
                 /\ PageOf(P, c.price) - PageOf(O, c.price) = c.amount
    <3>1. q = PagesOf(O, c, F, R) /\ L = Len(q) BY DEF q, L
    <3>. QED BY <1>9, <3>1, NothingTaken
  <2>. QED BY <1>1, <1>4, <1>6, <1>9, <2>1, <2>2 DEF BidPages
<1>. QED BY <1>8, <1>9

(* The chain accepts what the matcher proves of an ask, whenever it knows  *)
(* the accounts the proof starts from.                                     *)
LEMMA AskVerified ==
  ASSUME NEW O, NEW c, NEW F, NEW R, NEW n, NEW P, Trade(O, c, F, R, n, P), c.side = "ask",
         NEW acc \in Accounts, NEW p, p = TradeProof(O, c, F, R, P, acc), Leaves(p) < U8,
         NEW res, Matches(res, p.old)
  PROVE  Verified(p, res)
<1>. DEFINE q == PagesOf(O, c, F, R)
            L == Len(q)
            T == SumFunctionOnSet(F, DOMAIN O)
            paid == TotalPaid(O, c, F)
            got == TotalGot(O, c, F)
            new == AccountsAfter(acc, O, c, F, R)
<1>0. Open(O) /\ c \in Cmd /\ F = Fills(O, c) /\ R = Rest(O, c) /\ n \in Nat /\ n \notin DOMAIN O
      /\ P = OrdersAfter(O, c, F, R, n)
  BY DEF Trade
<1>1. Deltas(p, Base, Quote, paid, got)
  <2>1. PayToken(c.side) = Base /\ GetToken(c.side) = Quote BY TokensOf
  <2>2. Deltas(p, PayToken(c.side), GetToken(c.side), TotalPaid(O, c, F), TotalGot(O, c, F)) BY TradeDeltas
  <2>. QED BY <2>1, <2>2
<1>2. T = paid /\ T \in Nat
  <2>1. T \in Nat BY <1>0, RestFacts
  <2>2. CASE Filled(F) = {} BY <1>0, <2>1, <2>2, NothingPaid
  <2>3. CASE Filled(F) # {} BY <1>0, <2>1, <2>3, BetweenPrices
  <2>. QED BY <2>2, <2>3
<1>3. R \in Nat /\ (R # 0 => T + R = c.amount) BY <1>0, RestFacts
<1>4. /\ p.cmd = c /\ p.pages = q
      /\ \A s \in {"ask", "bid"} : p.old.size[s] = SizeOf(O, s) /\ p.new.size[s] = SizeOf(P, s)
      /\ p.old.account = acc /\ p.new.account = new
  <2>1. p.cmd = c /\ p.pages = q /\ p.old = Tree(O, acc) /\ p.new = Tree(P, new) BY TradeFields
  <2>. QED BY ONLY <2>1, TreeFields
<1>5. SizeOf(O, "ask") \in Int /\ SizeOf(O, "bid") \in Int
      /\ SizeOf(P, "ask") = SizeOf(O, "ask") + R /\ SizeOf(P, "bid") = SizeOf(O, "bid") - T
  BY <1>0, AfterSizes DEF OtherSide
<1>6. p.new.size["ask"] - p.old.size["ask"] = R /\ p.old.size["bid"] - p.new.size["bid"] = T
  BY <1>2, <1>3, <1>4, <1>5
<1>7. Leaves(p) = leaves_count(p)
  <2>1. L \in Nat BY PagesOrder
  <2>2. IsFiniteSet(p.makers) BY <1>1 DEF Deltas
  <2>. QED BY <1>4, <2>1, <2>2, LeavesCounted
<1>8. \A u \in {c.who} \cup p.makers : has_authorized_exactly_on(res, p, u)
  BY <1>1, <1>4 DEF Deltas, Matches, has_authorized_exactly_on
<1>9. check_fee(c) BY <1>0, CmdFields DEF check_fee
<1>10. /\ new[c.who][Base].available = acc[c.who][Base].available - (paid + R)
       /\ new[c.who][Base].frozen = acc[c.who][Base].frozen + R
       /\ acc[c.who][Base].available \in Int /\ acc[c.who][Base].frozen \in Int
  <2>1. PayToken(c.side) = Base BY TokensOf
  <2>2. Paid(c.side, R, c.price) = R BY DEF Paid
  <2>3. /\ new[c.who][PayToken(c.side)].available
             = acc[c.who][PayToken(c.side)].available - (TotalPaid(O, c, F) + Paid(c.side, R, c.price))
        /\ new[c.who][PayToken(c.side)].frozen = acc[c.who][PayToken(c.side)].frozen + Paid(c.side, R, c.price)
    BY AccountsFacts
  <2>4. c.who \in User BY <1>0, CmdFields
  <2>5. acc[c.who][Base].available \in Int /\ acc[c.who][Base].frozen \in Int
    BY <2>4 DEF Accounts, Leaf, Token
  <2>. QED BY <2>1, <2>2, <2>3, <2>5
<1>11. AskPages(p, R, T, T) BY AskPagesPass
<1>12. /\ Gain(p, c.who, Base) = -T
       /\ Gain(p, c.who, Quote) = got - mul_ceil(c.taker_fee, got)
       /\ SumFunction([u \in p.makers |-> Gain(p, u, Base)]) = T - mul_ceil(c.maker_fee, T)
       /\ SumFunction([u \in p.makers |-> Loss(p, u, Quote)]) = got
  BY <1>1, <1>2, <1>4 DEF Deltas, SumFunction
<1>13. got \in Nat /\ mul_ceil(c.taker_fee, got) \in Nat /\ mul_ceil(c.maker_fee, T) \in Nat
  <2>1. got \in Nat BY <1>0, PaidFacts
  <2>2. c.taker_fee \in Nat /\ c.maker_fee \in Nat BY <1>0, CmdFields
  <2>. QED BY <1>2, <2>1, <2>2, MulCeilType
<1>. HIDE DEF q, L, T, paid, got, new
<1>14. Loss(p, c.who, Base) = T BY <1>2, <1>12 DEF Loss
<1>15. /\ SumFunction([u \in p.makers |-> Gain(p, u, Base)]) + mul_ceil(c.maker_fee, T) = T
       /\ SumFunction([u \in p.makers |-> Loss(p, u, Quote)])
            = Gain(p, c.who, Quote) + mul_ceil(c.taker_fee, SumFunction([u \in p.makers |-> Loss(p, u, Quote)]))
  BY <1>2, <1>12, <1>13
<1>16. IF R # 0
       THEN c.amount = p.old.account[c.who][Base].available - p.new.account[c.who][Base].available
       ELSE p.old.account[c.who][Base].frozen = p.new.account[c.who][Base].frozen
  BY <1>2, <1>3, <1>4, <1>10
<1>17. verify_ask_limit(p, res)
  BY <1>4, <1>6, <1>7, <1>8, <1>11, <1>14, <1>15, <1>16 DEF verify_ask_limit
<1>18. is_stable(Quote) BY ClearingAssumption DEF is_stable
<1>. QED BY <1>4, <1>9, <1>17, <1>18 DEF Verified

(* The same for a bid.                                                     *)
LEMMA BidVerified ==
  ASSUME NEW O, NEW c, NEW F, NEW R, NEW n, NEW P, Trade(O, c, F, R, n, P), c.side = "bid",
         NEW acc \in Accounts, NEW p, p = TradeProof(O, c, F, R, P, acc), Leaves(p) < U8,
         NEW res, Matches(res, p.old)
  PROVE  Verified(p, res)
<1>. DEFINE q == PagesOf(O, c, F, R)
            L == Len(q)
            T == SumFunctionOnSet(F, DOMAIN O)
            paid == TotalPaid(O, c, F)
            got == TotalGot(O, c, F)
<1>0. Open(O) /\ c \in Cmd /\ F = Fills(O, c) /\ R = Rest(O, c) /\ n \in Nat /\ n \notin DOMAIN O
      /\ P = OrdersAfter(O, c, F, R, n)
  BY DEF Trade
<1>1. Deltas(p, Quote, Base, paid, got)
  <2>1. PayToken(c.side) = Quote /\ GetToken(c.side) = Base BY TokensOf
  <2>2. Deltas(p, PayToken(c.side), GetToken(c.side), TotalPaid(O, c, F), TotalGot(O, c, F)) BY TradeDeltas
  <2>. QED BY <2>1, <2>2
<1>2. T = got /\ T \in Nat
  <2>1. T \in Nat BY <1>0, RestFacts
  <2>2. CASE Filled(F) = {} BY <1>0, <2>1, <2>2, NothingPaid
  <2>3. CASE Filled(F) # {} BY <1>0, <2>1, <2>3, BetweenPrices
  <2>. QED BY <2>2, <2>3
<1>3. R \in Nat /\ c.amount \in Nat /\ (R # 0 => T + R = c.amount) BY <1>0, RestFacts, CmdFields
<1>4. /\ p.cmd = c /\ p.pages = q
      /\ \A s \in {"ask", "bid"} : p.old.size[s] = SizeOf(O, s) /\ p.new.size[s] = SizeOf(P, s)
  <2>1. p.cmd = c /\ p.pages = q /\ p.old = Tree(O, acc) /\ p.new = Tree(P, AccountsAfter(acc, O, c, F, R))
    BY TradeFields
  <2>. QED BY ONLY <2>1, TreeFields
<1>5. SizeOf(O, "ask") \in Int /\ SizeOf(O, "bid") \in Int
      /\ SizeOf(P, "bid") = SizeOf(O, "bid") + R /\ SizeOf(P, "ask") = SizeOf(O, "ask") - T
  BY <1>0, AfterSizes DEF OtherSide
<1>6. p.old.size["ask"] - p.new.size["ask"] = T /\ p.new.size["bid"] - p.old.size["bid"] = R
  BY <1>2, <1>3, <1>4, <1>5
<1>7. Leaves(p) = leaves_count(p)
  <2>1. L \in Nat BY PagesOrder
  <2>2. IsFiniteSet(p.makers) BY <1>1 DEF Deltas
  <2>. QED BY <1>4, <2>1, <2>2, LeavesCounted
<1>8. \A u \in {c.who} \cup p.makers : has_authorized_exactly_on(res, p, u)
  BY <1>1, <1>4 DEF Deltas, Matches, has_authorized_exactly_on
<1>9. check_fee(c) BY <1>0, CmdFields DEF check_fee
<1>10. BidPages(p, T, R, T) BY BidPagesPass
<1>11. /\ paid \in Nat
       /\ Gain(p, c.who, Quote) = -paid
       /\ Gain(p, c.who, Base) = T - mul_ceil(c.taker_fee, T)
       /\ SumFunction([u \in p.makers |-> Gain(p, u, Quote)]) = paid - mul_ceil(c.maker_fee, paid)
       /\ SumFunction([u \in p.makers |-> Loss(p, u, Base)]) = T
  BY <1>1, <1>2, <1>4 DEF Deltas, SumFunction
<1>12. mul_ceil(c.taker_fee, T) \in Nat /\ mul_ceil(c.maker_fee, paid) \in Nat
  <2>1. c.taker_fee \in Nat /\ c.maker_fee \in Nat BY <1>0, CmdFields
  <2>. QED BY <1>2, <1>11, <2>1, MulCeilType
<1>. HIDE DEF q, L, T, paid, got
<1>13. Loss(p, c.who, Quote) = paid BY <1>11 DEF Loss
<1>14. /\ SumFunction([u \in p.makers |-> Gain(p, u, Quote)]) + mul_ceil(c.maker_fee, paid) = paid
       /\ Gain(p, c.who, Base) + mul_ceil(c.taker_fee, T) = T
  BY <1>2, <1>11, <1>12
<1>15. R # 0 => R = c.amount - T BY <1>2, <1>3
<1>16. verify_bid_limit(p, res)
  BY <1>4, <1>6, <1>7, <1>8, <1>10, <1>11, <1>13, <1>14, <1>15 DEF verify_bid_limit
<1>17. is_stable(Quote) BY ClearingAssumption DEF is_stable
<1>. QED BY <1>4, <1>9, <1>16, <1>17 DEF Verified

(* What a proof must be for the chain's records to stay right.             *)
Honest(p) ==
  /\ p.old.account \in Accounts /\ p.new.account \in Accounts
  /\ Mutated(p) \subseteq User
  /\ \A u \in User \ Mutated(p), t \in Token : Gain(p, u, t) = 0
  /\ \A t \in Token : /\ FeesOf(p)[t] \in Nat
                      /\ SumFunctionOnSet([u \in User |-> Gain(p, u, t)], User) = -FeesOf(p)[t]
  /\ p.makers # {} =>
       /\ matched_amount(p) \in Nat \ {0} /\ matched_volume(p, p.cmd.who) \in Nat
       /\ \E low, high \in p.at :
            /\ low \in Nat /\ high \in Nat
            /\ low * matched_amount(p) <= matched_volume(p, p.cmd.who)
            /\ matched_volume(p, p.cmd.who) <= high * matched_amount(p)
  /\ \A res : Matches(res, p.old) => Verified(p, res)

(* Nothing taken away is nothing.                                          *)
LEMMA MinusZero == ASSUME NEW x \in Int, x = 0, NEW y, y = -x PROVE y = 0
<1>1. y \in Int /\ y + x = 0 OBVIOUS
<1>. QED BY ONLY <1>1, x = 0

(* Users gain together what the fees lose.                                 *)
LEMMA TradeFees ==
  ASSUME NEW p, p.cmd \in Cmd,
         NEW pay, pay = PayToken(p.cmd.side), NEW get, get = GetToken(p.cmd.side), NEW paid, NEW got,
         Deltas(p, pay, get, paid, got)
  PROVE  /\ \A t \in Token : /\ FeesOf(p)[t] \in Nat
                             /\ SumFunctionOnSet([u \in User |-> Gain(p, u, t)], User) = -FeesOf(p)[t]
         /\ \A u \in User \ Mutated(p), t \in Token : Gain(p, u, t) = 0
         /\ Mutated(p) \subseteq User
<1>. DEFINE c == p.cmd
            M == p.makers
            K == M \cup {c.who}
            all(t) == SumFunctionOnSet([u \in User |-> Gain(p, u, t)], User)
            mf == mul_ceil(c.maker_fee, paid)
            tf == mul_ceil(c.taker_fee, got)
<1>1. /\ paid \in Nat /\ got \in Nat /\ pay \in Token /\ get \in Token /\ pay # get
      /\ \A t \in Token : t = pay \/ t = get
      /\ c.who \in User /\ M \subseteq User /\ IsFiniteSet(M) /\ c.who \notin M
      /\ M = {} => paid = 0 /\ got = 0
      /\ \A u \in User, t \in Token : Gain(p, u, t) \in Int
      /\ Gain(p, c.who, pay) = -paid
      /\ Gain(p, c.who, get) = got - tf
      /\ SumFunctionOnSet([u \in M |-> Gain(p, u, pay)], M) = paid - mf
      /\ SumFunctionOnSet([u \in M |-> Loss(p, u, get)], M) = got
      /\ \A u \in User \ {c.who} : u \notin M => Gain(p, u, pay) = 0 /\ Gain(p, u, get) = 0
  BY DEF Deltas, BothTokens
<1>2. c.maker_fee \in Nat /\ c.taker_fee \in Nat BY CmdFields
<1>3. /\ mf \in Nat /\ (paid = 0 => mf = 0)
      /\ tf \in Nat /\ (got = 0 => tf = 0)
  BY <1>1, <1>2, MulCeilType
<1>4. IsFiniteSet(User) BY ClearingAssumption
<1>5. ASSUME NEW t \in Token
      PROVE  all(t) = Gain(p, c.who, t) + SumFunctionOnSet([u \in M |-> Gain(p, u, t)], M)
  <2>. DEFINE f == [u \in User |-> Gain(p, u, t)]
              g == [u \in M |-> Gain(p, u, t)]
  <2>1. \A u \in User : f[u] \in Int BY <1>1
  <2>2. K \subseteq User BY <1>1
  <2>3. \A u \in User \ K : f[u] = 0 BY <1>1
  <2>4. IsFiniteSet(K) BY <1>4, <2>2, FS_Subset
  <2>5. c.who \in K /\ K \ {c.who} = M BY <1>1
  <2>6. \A u \in M : f[u] \in Int /\ g[u] = f[u] BY <1>1
  <2>7. f[c.who] = Gain(p, c.who, t) BY <1>1
  <2>. HIDE DEF f, g, K
  <2>8. SumFunctionOnSet(f, User) = SumFunctionOnSet(f, K) BY <1>4, <2>1, <2>2, <2>3, SumExtend
  <2>9. \A u \in K : f[u] \in Int BY <2>1, <2>2
  <2>10. SumFunctionOnSet(f, K) = f[c.who] + SumFunctionOnSet(f, K \ {c.who})
    BY ONLY <2>4, <2>5, <2>9, SumRemove
  <2>11. SumFunctionOnSet(g, M) = SumFunctionOnSet(f, M) BY <1>1, <2>6, SumAgree
  <2>. QED BY <2>5, <2>7, <2>8, <2>10, <2>11 DEF f, g
<1>6. all(pay) = -mf
  <2>. HIDE DEF all, mf, tf, M
  <2>. QED BY <1>1, <1>3, <1>5 DEF M, c
<1>7. SumFunctionOnSet([u \in M |-> Gain(p, u, get)], M) = -got
  <2>. DEFINE f == [u \in M |-> Gain(p, u, get)]
              g == [u \in M |-> Loss(p, u, get)]
              k == -1
  <2>1. \A u \in M : f[u] \in Int /\ g[u] = k * f[u] BY <1>1 DEF Loss
  <2>2. k \in Int OBVIOUS
  <2>. HIDE DEF f, g, k
  <2>3. SumFunctionOnSet(g, M) = k * SumFunctionOnSet(f, M) BY <1>1, <2>1, <2>2, SumScale
  <2>4. SumFunctionOnSet(f, M) \in Int BY <1>1, <2>1, SumInt
  <2>. QED BY <1>1, <2>3, <2>4 DEF f, g, k
<1>8. all(get) = -tf
  <2>. HIDE DEF all, mf, tf, M
  <2>1. all(get) = Gain(p, c.who, get) + SumFunctionOnSet([u \in M |-> Gain(p, u, get)], M) BY <1>1, <1>5
  <2>. QED BY <1>1, <1>3, <1>7, <2>1
<1>9. M # {} => FeesOf(p)[pay] = mf /\ FeesOf(p)[get] = tf
  <2>1. Loss(p, c.who, pay) = paid BY <1>1 DEF Loss
  <2>2. SumFunction([m \in p.makers |-> Loss(p, m, get)]) = got BY <1>1 DEF SumFunction
  <2>. QED BY <1>1, <2>1, <2>2 DEF FeesOf
<1>10. M = {} => FeesOf(p)[pay] = 0 /\ FeesOf(p)[get] = 0 BY <1>1 DEF FeesOf
<1>11. FeesOf(p)[pay] = mf /\ FeesOf(p)[get] = tf BY <1>1, <1>3, <1>9, <1>10
<1>12. \A u \in User \ Mutated(p), t \in Token : Gain(p, u, t) = 0
  <2>1. CASE M # {} BY <1>1, <2>1 DEF Mutated
  <2>2. CASE M = {}
    <3>1. paid = 0 /\ got = 0 BY <1>1, <2>2
    <3>2. tf = 0 BY <1>3, <3>1
    <3>3. Gain(p, c.who, pay) = -paid /\ Gain(p, c.who, get) = got - tf BY <1>1
    <3>. HIDE DEF tf, c
    <3>. DEFINE x == Gain(p, c.who, pay)
                y == Gain(p, c.who, get)
    <3>4. x = -paid /\ y = got - tf /\ paid \in Int BY <1>1, <3>3
    <3>. HIDE DEF x, y
    <3>5. x = 0 BY ONLY <3>1, <3>4, MinusZero
    <3>6. y = 0 BY ONLY <3>1, <3>2, <3>4
    <3>. QED BY <1>1, <2>2, <3>5, <3>6 DEF x, y
  <2>. QED BY <2>1, <2>2
<1>13. Mutated(p) \subseteq User BY <1>1 DEF Mutated
<1>. QED BY <1>1, <1>3, <1>6, <1>8, <1>11, <1>12, <1>13

(* What the matcher proves of an order it executed is honest.              *)
LEMMA TradeHonest ==
  ASSUME NEW O, NEW c, NEW F, NEW R, NEW n, NEW P, Trade(O, c, F, R, n, P),
         NEW acc \in Accounts, NEW p, p = TradeProof(O, c, F, R, P, acc), Leaves(p) < U8
  PROVE  Honest(p)
<1>. DEFINE pay == PayToken(c.side)
            get == GetToken(c.side)
            paid == TotalPaid(O, c, F)
            got == TotalGot(O, c, F)
<1>0. Open(O) /\ c \in Cmd /\ F = Fills(O, c) BY DEF Trade
<1>1. Deltas(p, pay, get, paid, got) BY TradeDeltas
<1>2. /\ p.cmd = c /\ p.makers = Makers(O, F) /\ p.at = {O[i].price : i \in Filled(F)}
      /\ p.old.account = acc /\ p.new.account = AccountsAfter(acc, O, c, F, R)
  <2>1. /\ p.cmd = c /\ p.makers = Makers(O, F) /\ p.at = {O[i].price : i \in Filled(F)}
        /\ p.old = Tree(O, acc) /\ p.new = Tree(P, AccountsAfter(acc, O, c, F, R))
    BY TradeFields
  <2>. QED BY ONLY <2>1, TreeFields
<1>3. c.side \in {"ask", "bid"} BY <1>0, CmdFields
<1>4. p.old.account \in Accounts /\ p.new.account \in Accounts BY <1>2, AccountsFacts
<1>5. /\ \A t \in Token : /\ FeesOf(p)[t] \in Nat
                          /\ SumFunctionOnSet([u \in User |-> Gain(p, u, t)], User) = -FeesOf(p)[t]
      /\ \A u \in User \ Mutated(p), t \in Token : Gain(p, u, t) = 0
      /\ Mutated(p) \subseteq User
  <2>1. p.cmd \in Cmd BY <1>0, <1>2
  <2>2. pay = PayToken(p.cmd.side) /\ get = GetToken(p.cmd.side) BY <1>2
  <2>. HIDE DEF pay, get, paid, got
  <2>. QED BY ONLY <1>1, <2>1, <2>2, TradeFees
<1>6. \A res : Matches(res, p.old) => Verified(p, res)
  <2>. SUFFICES ASSUME NEW res, Matches(res, p.old) PROVE Verified(p, res) OBVIOUS
  <2>1. CASE c.side = "ask" BY <2>1, AskVerified
  <2>2. CASE c.side = "bid" BY <2>2, BidVerified
  <2>. QED BY <1>3, <2>1, <2>2
<1>7. ASSUME p.makers # {}
      PROVE  /\ matched_amount(p) \in Nat \ {0} /\ matched_volume(p, p.cmd.who) \in Nat
             /\ \E low, high \in p.at :
                  /\ low \in Nat /\ high \in Nat
                  /\ low * matched_amount(p) <= matched_volume(p, p.cmd.who)
                  /\ matched_volume(p, p.cmd.who) <= high * matched_amount(p)
  <2>. DEFINE T == SumFunctionOnSet(F, DOMAIN O)
              V == IF c.side = "ask" THEN got ELSE paid
  <2>1. Filled(F) # {} BY <1>2, <1>7 DEF Makers
  <2>2. /\ T = IF c.side = "ask" THEN paid ELSE got
        /\ T \in Nat \ {0} /\ V \in Nat
        /\ \E low, high \in p.at : low \in Nat /\ high \in Nat /\ low * T <= V /\ V <= high * T
    BY <1>0, <1>2, <2>1, BetweenPrices
  <2>3. /\ paid \in Nat /\ got \in Nat
        /\ Gain(p, c.who, pay) = -paid
        /\ SumFunctionOnSet([u \in p.makers |-> Loss(p, u, get)], p.makers) = got
    BY <1>1, <1>2 DEF Deltas
  <2>. HIDE DEF paid, got
  <2>4. Loss(p, c.who, pay) = paid BY <2>3 DEF Loss
  <2>5. SumFunction([m \in p.makers |-> Loss(p, m, get)]) = got BY <2>3 DEF SumFunction
  <2>6. /\ c.side = "ask" => pay = Base /\ get = Quote
        /\ c.side = "bid" => pay = Quote /\ get = Base
    BY <1>3, TokensOf
  <2>. HIDE DEF pay, get
  <2>7. CASE c.side = "ask"
    <3>1. matched_amount(p) = paid BY <1>2, <2>4, <2>6, <2>7 DEF matched_amount
    <3>2. matched_volume(p, p.cmd.who) = got BY <1>2, <2>5, <2>6, <2>7 DEF matched_volume
    <3>3. T = matched_amount(p) /\ V = matched_volume(p, p.cmd.who) BY <2>2, <2>7, <3>1, <3>2
    <3>. HIDE DEF T, V
    <3>. QED BY <2>2, <3>3
  <2>8. CASE c.side = "bid"
    <3>1. matched_amount(p) = got BY <1>2, <2>5, <2>6, <2>8 DEF matched_amount
    <3>2. matched_volume(p, p.cmd.who) = paid BY <1>2, <2>4, <2>6, <2>8 DEF matched_volume
    <3>3. T = matched_amount(p) /\ V = matched_volume(p, p.cmd.who) BY <2>2, <2>8, <3>1, <3>2
    <3>. HIDE DEF T, V
    <3>. QED BY <2>2, <3>3
  <2>. QED BY <1>3, <2>7, <2>8
<1>. QED BY <1>4, <1>5, <1>6, <1>7 DEF Honest

-----------------------------------------------------------------------------
(* No leaf of an account is negative.                                      *)
Natural(tree) ==
  \A u \in User, t \in Token : /\ tree.account[u][t].available \in Nat
                               /\ tree.account[u][t].frozen \in Nat

(* The code subtracts leaves as unsigned numbers.  Of these differences,   *)
(* the ones its other checks do not equate with one another:               *)
UnsignedTrade(p, pay, get) ==
  /\ p.cmd.side \in {"ask", "bid"}
  /\ p.new.size[p.cmd.side] - p.old.size[p.cmd.side] \in Nat
  /\ p.old.size[OtherSide(p.cmd.side)] - p.new.size[OtherSide(p.cmd.side)] \in Nat
  /\ p.old.account[p.cmd.who][pay].available - p.new.account[p.cmd.who][pay].available \in Nat
  /\ Loss(p, p.cmd.who, pay) \in Nat /\ Gain(p, p.cmd.who, get) \in Nat
  /\ \A u \in p.makers : Gain(p, u, pay) \in Nat /\ Loss(p, u, get) \in Nat

Unsigned(p) ==
  IF p.cmd.side = "cancel"
  THEN p.makers = {} /\ \A s \in {"ask", "bid"} : p.old.size[s] - p.new.size[s] \in Nat
  ELSE UnsignedTrade(p, PayToken(p.cmd.side), GetToken(p.cmd.side))

(* Accounts that are covered have no negative leaf.                        *)
LEMMA CoveredNatural ==
  ASSUME NEW O, Open(O), NEW acc, Covered(O, acc), NEW tree, tree.account = acc
  PROVE  Natural(tree)
<1>1. \A i \in DOMAIN O : Rests(O)[i] \in Nat BY OrderFields DEF Rests
<1>2. \A u, t : ValueOf(O, Rests(O), u, t) \in Nat BY <1>1, ValueType
<1>. QED BY <1>2 DEF Covered, Natural

(* A trade: the taker pays what makers receive, and gets what they give.   *)
LEMMA TradeUnsigned ==
  ASSUME NEW O, NEW c, NEW F, NEW R, NEW n, NEW P, Trade(O, c, F, R, n, P),
         NEW acc \in Accounts, NEW p, p = TradeProof(O, c, F, R, P, acc)
  PROVE  Unsigned(p)
<1>. DEFINE pay == PayToken(c.side)
            get == GetToken(c.side)
            new == AccountsAfter(acc, O, c, F, R)
            paid == TotalPaid(O, c, F)
            got == TotalGot(O, c, F)
            fee == mul_ceil(c.taker_fee, got)
            T == SumFunctionOnSet(F, DOMAIN O)
<1>0. Open(O) /\ c \in Cmd /\ F = Fills(O, c) /\ R = Rest(O, c) /\ n \in Nat /\ n \notin DOMAIN O
      /\ P = OrdersAfter(O, c, F, R, n)
  BY DEF Trade
<1>1. /\ c.side \in {"ask", "bid"} /\ c.who \in User
      /\ c.taker_fee \in Nat /\ c.taker_fee <= Parts
  BY <1>0, CmdFields
<1>2. /\ p.cmd = c /\ p.makers = Makers(O, F) /\ p.old.account = acc /\ p.new.account = new
      /\ \A s \in {"ask", "bid"} : p.old.size[s] = SizeOf(O, s) /\ p.new.size[s] = SizeOf(P, s)
      /\ \A u, t : AccountSum(p.old, u, t) = SumAt(acc, u, t) /\ AccountSum(p.new, u, t) = SumAt(new, u, t)
  <2>1. p.cmd = c /\ p.makers = Makers(O, F) /\ p.old = Tree(O, acc) /\ p.new = Tree(P, new) BY TradeFields
  <2>. QED BY ONLY <2>1, TreeFields
<1>3. /\ Deltas(p, pay, get, paid, got) /\ paid \in Nat /\ got \in Nat
      /\ Gain(p, c.who, pay) = -paid /\ Gain(p, c.who, get) = got - fee
  <2>1. Deltas(p, pay, get, paid, got) BY TradeDeltas
  <2>. HIDE DEF paid, got, pay, get
  <2>. QED BY <1>2, <2>1 DEF Deltas
<1>4. fee \in Nat /\ fee <= got BY <1>1, <1>3, MulCeilType, MulCeilBelow
<1>5. Loss(p, c.who, pay) \in Nat /\ Gain(p, c.who, get) \in Nat
  <2>. HIDE DEF paid, got, pay, get, fee
  <2>. QED BY <1>3, <1>4 DEF Loss
<1>6. ASSUME NEW u \in Makers(O, F) PROVE Gain(p, u, pay) \in Nat /\ Loss(p, u, get) \in Nat
  <2>1. u \in User \ {c.who} BY <1>0, MakersFacts
  <2>2. /\ SumAt(new, u, pay) = SumAt(acc, u, pay) + Received(O, c, F, u)
        /\ SumAt(new, u, get) = SumAt(acc, u, get) - Given(O, c, F, u)
    BY <2>1, AccountsFacts
  <2>3. Received(O, c, F, u) \in Nat /\ Given(O, c, F, u) \in Nat BY <1>0, MakersReceive
  <2>4. pay \in Token /\ get \in Token BY <1>1, TokensOf
  <2>5. SumAt(acc, u, pay) \in Int /\ SumAt(acc, u, get) \in Int
    <3>1. \A t \in Token : SumAt(acc, u, t) \in Int BY <2>1 DEF Accounts, Leaf, SumAt
    <3>. QED BY <2>4, <3>1
  <2>6. /\ Gain(p, u, pay) = SumAt(new, u, pay) - SumAt(acc, u, pay)
        /\ Loss(p, u, get) = -(SumAt(new, u, get) - SumAt(acc, u, get))
    BY <1>2 DEF Gain, Loss
  <2>. HIDE DEF pay, get, new
  <2>. QED BY ONLY <2>2, <2>3, <2>5, <2>6
<1>7. /\ p.new.size[c.side] - p.old.size[c.side] \in Nat
      /\ p.old.size[OtherSide(c.side)] - p.new.size[OtherSide(c.side)] \in Nat
  <2>1. R \in Nat /\ T \in Nat BY <1>0, RestFacts
  <2>2. /\ SizeOf(O, "ask") \in Int /\ SizeOf(O, "bid") \in Int
        /\ SizeOf(P, c.side) = SizeOf(O, c.side) + R
        /\ SizeOf(P, OtherSide(c.side)) = SizeOf(O, OtherSide(c.side)) - T
    BY <1>0, AfterSizes
  <2>. HIDE DEF T
  <2>. QED BY <1>1, <1>2, <2>1, <2>2 DEF OtherSide
<1>8. p.old.account[c.who][pay].available - p.new.account[c.who][pay].available \in Nat
  <2>. DEFINE kept == Paid(c.side, R, c.price)
              x == acc[c.who][pay].available
  <2>1. kept \in Nat /\ new[c.who][pay].available = x - (paid + kept) BY AccountsFacts
  <2>2. x \in Int
    <3>1. pay \in Token BY <1>1, TokensOf
    <3>. QED BY <1>1, <3>1 DEF Accounts, Leaf
  <2>. HIDE DEF kept, paid, new
  <2>3. x - (x - (paid + kept)) \in Nat BY <1>3, <2>1, <2>2
  <2>. QED BY <1>2, <2>1, <2>3
<1>9. UnsignedTrade(p, pay, get) BY <1>1, <1>2, <1>5, <1>6, <1>7, <1>8 DEF UnsignedTrade
<1>. QED BY <1>1, <1>2, <1>9 DEF Unsigned

-----------------------------------------------------------------------------
(* What the matcher proves to the chain for an order it withdrew.          *)
CancelProof(O, i, P, acc) ==
  [cmd |-> [side |-> "cancel", who |-> O[i].who], makers |-> {},
   pages |-> <<O[i].price>>, at |-> {}, old |-> Tree(O, acc),
   new |-> Tree(P, Unfrozen(acc, O[i]))]

(* Without one order, the others are open and as uncrossed as before.      *)
LEMMA OthersOpen ==
  ASSUME NEW O, Open(O), Uncrossed(O), NEW i, NEW P, P = Restrict(O, DOMAIN O \ {i})
  PROVE  Open(P) /\ Uncrossed(P) /\ DOMAIN P = DOMAIN O \ {i} /\ \A j \in DOMAIN P : P[j] = O[j]
<1>1. DOMAIN P = DOMAIN O \ {i} /\ \A j \in DOMAIN P : P[j] = O[j] BY DEF Restrict
<1>2. IsFiniteSet(DOMAIN P) BY <1>1, FS_Subset DEF Open
<1>3. Open(P) BY <1>1, <1>2 DEF Open
<1>4. Uncrossed(P) BY <1>1 DEF Uncrossed
<1>. QED BY <1>1, <1>3, <1>4

(* Without one order, a total over the orders is less by what it counted.  *)
LEMMA WithoutOrder ==
  ASSUME NEW O, Open(O), Uncrossed(O), NEW i \in DOMAIN O, NEW P, P = Restrict(O, DOMAIN O \ {i})
  PROVE  /\ \A s : /\ SizeOf(O, s) \in Int /\ SizeOf(P, s) \in Int
                   /\ SizeOf(P, s) = SizeOf(O, s) - (IF O[i].side = s THEN O[i].rest ELSE 0)
         /\ \A x : /\ PageOf(O, x) \in Int /\ PageOf(P, x) \in Int
                   /\ PageOf(P, x) = PageOf(O, x) - (IF O[i].price = x THEN O[i].rest ELSE 0)
<1>1. DOMAIN P = DOMAIN O \ {i} /\ \A j \in DOMAIN P : P[j] = O[j] BY OthersOpen
<1>2. Open(P) BY OthersOpen
<1>4. IsFiniteSet(DOMAIN O) /\ \A j \in DOMAIN O : O[j].rest \in Nat BY OrderFields DEF Open
<1>5. ASSUME NEW K
      PROVE  /\ Chosen(Rests(O), DOMAIN O, K) \in Int /\ Chosen(Rests(P), DOMAIN P, K) \in Int
             /\ Chosen(Rests(P), DOMAIN P, K)
                  = Chosen(Rests(O), DOMAIN O, K) - (IF i \in K THEN O[i].rest ELSE 0)
  <2>. DEFINE f == [j \in DOMAIN O |-> IF j \in K THEN Rests(O)[j] ELSE 0]
              g == [j \in DOMAIN P |-> IF j \in K THEN Rests(P)[j] ELSE 0]
              D == DOMAIN O
  <2>1. \A j \in D : f[j] \in Int BY <1>4 DEF Rests
  <2>2. \A j \in D \ {i} : g[j] = f[j] BY <1>1 DEF Rests
  <2>3. f[i] = IF i \in K THEN O[i].rest ELSE 0 BY DEF Rests
  <2>4. IsFiniteSet(D) /\ i \in D /\ IsFiniteSet(D \ {i}) BY <1>1, <1>2, <1>4 DEF Open
  <2>. HIDE DEF f, g, D
  <2>5. SumFunctionOnSet(f, D) = f[i] + SumFunctionOnSet(f, D \ {i}) BY ONLY <2>1, <2>4, SumRemove
  <2>6. \A j \in D \ {i} : f[j] \in Int BY <2>1
  <2>7. SumFunctionOnSet(g, D \ {i}) = SumFunctionOnSet(f, D \ {i}) BY <2>2, <2>4, <2>6, SumAgree
  <2>8. SumFunctionOnSet(f, D \ {i}) \in Int BY <2>4, <2>6, SumInt
  <2>9. f[i] \in Int BY <2>1, <2>4
  <2>10. Chosen(Rests(O), DOMAIN O, K) = SumFunctionOnSet(f, D)
         /\ Chosen(Rests(P), DOMAIN P, K) = SumFunctionOnSet(g, D \ {i})
    BY <1>1 DEF Chosen, f, g, D
  <2>. QED BY <2>3, <2>5, <2>7, <2>8, <2>9, <2>10
<1>6. ASSUME NEW s
      PROVE  /\ SizeOf(O, s) \in Int /\ SizeOf(P, s) \in Int
             /\ SizeOf(P, s) = SizeOf(O, s) - (IF O[i].side = s THEN O[i].rest ELSE 0)
  <2>. DEFINE K == {j \in DOMAIN O : O[j].side = s}
  <2>1. SizeOf(O, s) = Chosen(Rests(O), DOMAIN O, K) BY SizeIsChosen
  <2>2. \A j \in DOMAIN P : j \in K <=> P[j].side = s BY <1>1
  <2>3. SizeOf(P, s) = Chosen(Rests(P), DOMAIN P, K) BY <2>2, SizeIsChosen
  <2>4. i \in K <=> O[i].side = s OBVIOUS
  <2>. QED BY <1>5, <2>1, <2>3, <2>4
<1>7. ASSUME NEW x
      PROVE  /\ PageOf(O, x) \in Int /\ PageOf(P, x) \in Int
             /\ PageOf(P, x) = PageOf(O, x) - (IF O[i].price = x THEN O[i].rest ELSE 0)
  <2>. DEFINE K == {j \in DOMAIN O : O[j].price = x}
  <2>1. PageOf(O, x) = Chosen(Rests(O), DOMAIN O, K) BY PageIsChosen
  <2>2. \A j \in DOMAIN P : j \in K <=> P[j].price = x BY <1>1
  <2>3. PageOf(P, x) = Chosen(Rests(P), DOMAIN P, K) BY <2>2, PageIsChosen
  <2>4. i \in K <=> O[i].price = x OBVIOUS
  <2>. QED BY <1>5, <2>1, <2>3, <2>4
<1>. QED BY <1>6, <1>7

(* Withdrawing an order frees funds and leaves every account's sum alone.  *)
LEMMA UnfrozenSums ==
  ASSUME NEW acc \in Accounts, NEW o \in Order, NEW new, new = Unfrozen(acc, o)
  PROVE  /\ new \in Accounts
         /\ \A u \in User, t \in Token : SumAt(acc, u, t) \in Int /\ SumAt(new, u, t) = SumAt(acc, u, t)
         /\ \A u \in User, t \in Token :
              new[u][t] = IF u = o.who /\ t = PayToken(o.side)
                          THEN [available |-> acc[u][t].available + Paid(o.side, o.rest, o.price),
                                frozen |-> acc[u][t].frozen - Paid(o.side, o.rest, o.price)]
                          ELSE acc[u][t]
<1>. DEFINE v == Paid(o.side, o.rest, o.price)
            a == PayToken(o.side)
            w == o.who
            leaf == [available |-> acc[w][a].available + v, frozen |-> acc[w][a].frozen - v]
<1>1. w \in User /\ o.side \in {"ask", "bid"} /\ o.rest \in Nat /\ o.price \in Nat
  BY ClearingAssumption DEF Order, Side
<1>2. a \in Token BY <1>1, TokensOf
<1>3. v \in Int
  <2>1. o.rest * o.price \in Nat BY <1>1
  <2>. QED BY <1>1, <2>1 DEF Paid
<1>4. new = [acc EXCEPT ![w][a] = leaf] BY DEF Unfrozen
<1>5. \A u \in User, t \in Token : /\ acc[u][t] \in Leaf /\ acc[u][t].available \in Int /\ acc[u][t].frozen \in Int
                                   /\ acc[u] \in [Token -> Leaf]
  BY DEF Accounts, Leaf
<1>. HIDE DEF v, a, w
<1>6. /\ leaf \in Leaf
      /\ leaf.available + leaf.frozen = acc[w][a].available + acc[w][a].frozen
  BY <1>1, <1>2, <1>3, <1>5 DEF Leaf
<1>. HIDE DEF leaf
<1>7. /\ DOMAIN new = User
      /\ \A u \in User \ {w} : new[u] = acc[u]
      /\ new[w] = [acc[w] EXCEPT ![a] = leaf]
  BY <1>1, <1>4 DEF Accounts
<1>8. \A t \in Token : new[w][t] = IF t = a THEN leaf ELSE acc[w][t]
  BY <1>1, <1>5, <1>7
<1>9. new[w] \in [Token -> Leaf]
  <2>1. acc[w] \in [Token -> Leaf] BY <1>1, <1>2, <1>5
  <2>. DEFINE row == acc[w]
  <2>2. new[w] = [row EXCEPT ![a] = leaf] BY <1>7
  <2>. HIDE DEF row
  <2>3. [row EXCEPT ![a] = leaf] \in [Token -> Leaf] BY ONLY <1>6, <2>1 DEF row
  <2>. QED BY ONLY <2>2, <2>3
<1>10. new \in Accounts
  <2>1. \A u \in User : new[u] \in [Token -> Leaf] BY <1>5, <1>7, <1>9
  <2>2. new = [u \in User |-> new[u]] BY <1>4 DEF Accounts
  <2>. QED BY <2>1, <2>2 DEF Accounts
<1>11. \A u \in User, t \in Token : SumAt(new, u, t) = SumAt(acc, u, t)
  BY <1>6, <1>7, <1>8 DEF SumAt
<1>12. \A u \in User, t \in Token : new[u][t] = IF u = w /\ t = a THEN leaf ELSE acc[u][t]
  BY <1>7, <1>8
<1>13. \A u \in User, t \in Token :
         new[u][t] = IF u = w /\ t = a
                     THEN [available |-> acc[u][t].available + v, frozen |-> acc[u][t].frozen - v]
                     ELSE acc[u][t]
  BY <1>12 DEF leaf
<1>. QED BY <1>5, <1>10, <1>11, <1>13 DEF SumAt, v, a, w

(* No bit is set in zero.                                                  *)
LEMMA ZeroBits ==
  ASSUME NEW a \in Int, NEW b \in Int, a = 0 \/ b = 0
  PROVE  NoCommonBit(a, b)
<1>1. \A x \in Bit : x \in Nat \ {0} BY ClearingAssumption
<1>2. \A x \in Nat \ {0} : 0 \div x = 0 /\ 0 % 2 = 0 OBVIOUS
<1>. QED BY <1>1, <1>2 DEF NoCommonBit

(* What the matcher proves of an order it withdrew is honest.              *)
LEMMA CancelHonest ==
  ASSUME NEW O, Open(O), Uncrossed(O), NEW i \in DOMAIN O, NEW P, P = Restrict(O, DOMAIN O \ {i}),
         NEW acc \in Accounts, NEW p, p = CancelProof(O, i, P, acc)
  PROVE  Honest(p)
<1>. DEFINE o == O[i]
            new == Unfrozen(acc, o)
<1>1. /\ o \in Order /\ o.who \in User /\ o.side \in {"ask", "bid"} /\ o.price \in Price
      /\ o.price \in Nat \ {0} /\ o.rest \in Nat \ {0}
  BY OrderFields DEF Open
<1>2. /\ new \in Accounts
      /\ \A u \in User, t \in Token : SumAt(acc, u, t) \in Int /\ SumAt(new, u, t) = SumAt(acc, u, t)
  BY <1>1, UnfrozenSums
<1>. HIDE DEF new
<1>3. /\ p.cmd.side = "cancel" /\ p.cmd.who = o.who /\ p.makers = {} /\ p.pages = <<o.price>>
      /\ p.old = Tree(O, acc) /\ p.new = Tree(P, new)
  BY DEF CancelProof, new
<1>. HIDE DEF o
<1>4. /\ \A s \in {"ask", "bid"} : /\ p.old.size[s] = SizeOf(O, s) /\ p.new.size[s] = SizeOf(P, s)
                                   /\ p.old.best[s] = BestOf(O, s)
      /\ p.old.account = acc /\ p.new.account = new
      /\ p.old.page[o.price] = PageOf(O, o.price) /\ p.new.page[o.price] = PageOf(P, o.price)
  <2>1. o.price \in Price BY <1>1
  <2>. QED BY ONLY <1>3, <2>1, TreeFields
<1>5. \A u \in User, t \in Token : Gain(p, u, t) = 0
  BY <1>2, <1>4 DEF Gain, AccountSum, SumAt
<1>6. Mutated(p) = {} /\ \A t \in Token : FeesOf(p)[t] = 0 BY <1>3 DEF Mutated, FeesOf
<1>7. \A t \in Token : SumFunctionOnSet([u \in User |-> Gain(p, u, t)], User) = 0
  <2>. SUFFICES ASSUME NEW t \in Token PROVE SumFunctionOnSet([u \in User |-> Gain(p, u, t)], User) = 0 OBVIOUS
  <2>1. \A u \in User : [x \in User |-> Gain(p, x, t)][u] = 0 BY <1>5
  <2>2. IsFiniteSet(User) BY ClearingAssumption
  <2>. QED BY <2>1, <2>2, SumZero
<1>8. verify_cancel(p)
  <2>1. /\ SizeOf(O, "ask") \in Int /\ SizeOf(P, "ask") \in Int
        /\ SizeOf(O, "bid") \in Int /\ SizeOf(P, "bid") \in Int
        /\ SizeOf(P, "ask") = SizeOf(O, "ask") - (IF o.side = "ask" THEN o.rest ELSE 0)
        /\ SizeOf(P, "bid") = SizeOf(O, "bid") - (IF o.side = "bid" THEN o.rest ELSE 0)
        /\ PageOf(O, o.price) \in Int /\ PageOf(P, o.price) \in Int
        /\ PageOf(P, o.price) = PageOf(O, o.price) - o.rest
    BY WithoutOrder DEF o
  <2>2. LastOld(p) = PageOf(O, o.price) /\ LastNew(p) = PageOf(P, o.price) /\ p.pages[1] = o.price
    <3>1. Len(p.pages) = 1 /\ p.pages[1] = o.price BY <1>3
    <3>. QED BY <1>4, <3>1 DEF LastOld, LastNew, LastPage
  <2>3. LastOld(p) - LastNew(p) = o.rest BY <1>1, <2>1, <2>2
  <2>4. BestOf(O, "ask") \in Nat /\ BestOf(O, "bid") \in Nat BY BestFacts
  <2>5. CASE o.side = "ask"
    <3>1. p.old.size["ask"] - p.new.size["ask"] = o.rest /\ p.old.size["bid"] - p.new.size["bid"] = 0
      BY <1>1, <1>4, <2>1, <2>5
    <3>2. BestOf(O, "ask") # 0 /\ BestOf(O, "ask") <= o.price BY <2>5, BestFacts DEF o
    <3>3. CancelsAsk(p.pages[1], p.old.best["ask"]) BY <1>1, <1>4, <2>2, <2>4, <3>2 DEF CancelsAsk
    <3>4. NoCommonBit(o.rest, 0) BY <1>1, ZeroBits
    <3>. DEFINE a == p.old.size["ask"] - p.new.size["ask"]
                b == p.old.size["bid"] - p.new.size["bid"]
                at == p.pages[1]
                same == \A t \in Token : Gain(p, p.cmd.who, t) = 0
    <3>5. same BY <1>1, <1>3, <1>5
    <3>6. a = o.rest /\ b = 0 /\ a + b # 0 /\ NoCommonBit(a, b) BY <1>1, <3>1, <3>4
    <3>7. at >= p.old.best["ask"] BY <1>1, <1>4, <2>2, <2>4, <3>2
    <3>8. LastOld(p) - LastNew(p) = IF CancelsAsk(at, p.old.best["ask"]) THEN a ELSE b
      BY <2>3, <3>3, <3>6
    <3>9. verify_cancel(p)
            <=> /\ a + b # 0 /\ NoCommonBit(a, b) /\ same
                /\ at >= p.old.best["ask"] \/ at <= p.old.best["bid"]
                /\ LastOld(p) - LastNew(p) = IF CancelsAsk(at, p.old.best["ask"]) THEN a ELSE b
      BY DEF verify_cancel
    <3>. HIDE DEF a, b, at, same
    <3>. QED BY ONLY <3>5, <3>6, <3>7, <3>8, <3>9
  <2>6. CASE o.side = "bid"
    <3>1. p.old.size["bid"] - p.new.size["bid"] = o.rest /\ p.old.size["ask"] - p.new.size["ask"] = 0
      BY <1>1, <1>4, <2>1, <2>6
    <3>2. BestOf(O, "bid") >= o.price BY <2>6, BestFacts DEF o
    <3>3. ~CancelsAsk(p.pages[1], p.old.best["ask"])
      <4>1. SUFFICES ASSUME BestOf(O, "ask") # 0, o.price >= BestOf(O, "ask") PROVE FALSE
        BY <1>4, <2>2 DEF CancelsAsk
      <4>2. PICK j \in DOMAIN O : O[j].side = "ask" /\ O[j].price = BestOf(O, "ask") BY <4>1, BestFacts
      <4>3. O[j].price > o.price BY <2>6, <4>2 DEF Uncrossed, o
      <4>. QED BY <1>1, <2>4, <4>1, <4>2, <4>3
    <3>4. NoCommonBit(0, o.rest) BY <1>1, ZeroBits
    <3>. DEFINE a == p.old.size["ask"] - p.new.size["ask"]
                b == p.old.size["bid"] - p.new.size["bid"]
                at == p.pages[1]
                same == \A t \in Token : Gain(p, p.cmd.who, t) = 0
    <3>5. same BY <1>1, <1>3, <1>5
    <3>6. a = 0 /\ b = o.rest /\ a + b # 0 /\ NoCommonBit(a, b) BY <1>1, <3>1, <3>4
    <3>7. at <= p.old.best["bid"] BY <1>1, <1>4, <2>2, <2>4, <3>2
    <3>8. LastOld(p) - LastNew(p) = IF CancelsAsk(at, p.old.best["ask"]) THEN a ELSE b
      BY <2>3, <3>3, <3>6
    <3>9. verify_cancel(p)
            <=> /\ a + b # 0 /\ NoCommonBit(a, b) /\ same
                /\ at >= p.old.best["ask"] \/ at <= p.old.best["bid"]
                /\ LastOld(p) - LastNew(p) = IF CancelsAsk(at, p.old.best["ask"]) THEN a ELSE b
      BY DEF verify_cancel
    <3>. HIDE DEF a, b, at, same
    <3>. QED BY ONLY <3>5, <3>6, <3>7, <3>8, <3>9
  <2>. QED BY <1>1, <2>5, <2>6
<1>9. \A res : Verified(p, res) BY <1>3, <1>8 DEF Verified
<1>10. p.old.account \in Accounts /\ p.new.account \in Accounts BY <1>2, <1>4
<1>11. \A t \in Token : /\ FeesOf(p)[t] \in Nat
                        /\ SumFunctionOnSet([u \in User |-> Gain(p, u, t)], User) = -FeesOf(p)[t]
  <2>. SUFFICES ASSUME NEW t \in Token
                PROVE  /\ FeesOf(p)[t] \in Nat
                       /\ SumFunctionOnSet([u \in User |-> Gain(p, u, t)], User) = -FeesOf(p)[t]
    OBVIOUS
  <2>1. FeesOf(p)[t] = 0 /\ SumFunctionOnSet([u \in User |-> Gain(p, u, t)], User) = 0 BY <1>6, <1>7
  <2>2. -FeesOf(p)[t] = 0 BY <2>1, MinusZero
  <2>. QED BY <2>1, <2>2
<1>12. Mutated(p) \subseteq User /\ \A u \in User \ Mutated(p), t \in Token : Gain(p, u, t) = 0
  BY <1>5, <1>6
<1>. QED BY <1>3, <1>9, <1>10, <1>11, <1>12 DEF Honest

(* An order withdrawn leaves every account covered.                        *)
LEMMA CancelCovered ==
  ASSUME NEW O, Open(O), Uncrossed(O), NEW i \in DOMAIN O, NEW P, P = Restrict(O, DOMAIN O \ {i}),
         NEW acc \in Accounts, Covered(O, acc), NEW new, new = Unfrozen(acc, O[i])
  PROVE  Covered(P, new)
<1>. DEFINE o == O[i]
            D == DOMAIN O
            v == Paid(o.side, o.rest, o.price)
<1>1. o \in Order /\ o.rest \in Nat /\ o.price \in Nat BY OrderFields DEF Open
<1>2. v \in Nat BY <1>1, PaidLinear
<1>3. \A u \in User, t \in Token :
        new[u][t] = IF u = o.who /\ t = PayToken(o.side)
                    THEN [available |-> acc[u][t].available + v, frozen |-> acc[u][t].frozen - v]
                    ELSE acc[u][t]
  BY <1>1, UnfrozenSums
<1>4. Open(P) /\ DOMAIN P = D \ {i} /\ \A j \in D \ {i} : P[j] = O[j]
  <2>1. DOMAIN P = D \ {i} /\ \A j \in D \ {i} : P[j] = O[j] BY DEF Restrict
  <2>2. Open(P) BY OthersOpen
  <2>. QED BY <2>1, <2>2
<1>5. \A j \in D : Rests(O)[j] \in Nat /\ Rests(O)[j] = O[j].rest BY OrderFields DEF Rests
<1>6. ASSUME NEW u, NEW t
      PROVE  ValueOf(P, Rests(P), u, t)
               = ValueOf(O, Rests(O), u, t) - (IF u = o.who /\ t = PayToken(o.side) THEN v ELSE 0)
  <2>. DEFINE f == Value(O, Rests(O), u, t)
              g == Value(P, Rests(P), u, t)
  <2>1. \A j \in D : f[j] \in Nat BY <1>5, ValueType
  <2>2. f[i] = IF u = o.who /\ t = PayToken(o.side) THEN v ELSE 0 BY <1>5 DEF Value
  <2>3. \A j \in D \ {i} : g[j] = f[j] BY <1>4, <1>5 DEF Value, Rests
  <2>4. IsFiniteSet(D) /\ IsFiniteSet(D \ {i}) /\ i \in D BY <1>4 DEF Open
  <2>5. ValueOf(P, Rests(P), u, t) = SumFunctionOnSet(g, D \ {i})
        /\ ValueOf(O, Rests(O), u, t) = SumFunctionOnSet(f, D)
    BY <1>4 DEF ValueOf
  <2>. HIDE DEF f, g, D
  <2>6. \A j \in D : f[j] \in Int BY <2>1
  <2>7. SumFunctionOnSet(f, D) = f[i] + SumFunctionOnSet(f, D \ {i}) BY ONLY <2>4, <2>6, SumRemove
  <2>8. \A j \in D \ {i} : f[j] \in Int BY <2>6
  <2>9. SumFunctionOnSet(g, D \ {i}) = SumFunctionOnSet(f, D \ {i}) BY <2>3, <2>4, <2>8, SumAgree
  <2>10. SumFunctionOnSet(f, D \ {i}) \in Int BY <2>4, <2>8, SumInt
  <2>. DEFINE w == IF u = o.who /\ t = PayToken(o.side) THEN v ELSE 0
  <2>11. f[i] = w /\ w \in Int BY <1>2, <2>2
  <2>. HIDE DEF w
  <2>12. SumFunctionOnSet(g, D \ {i}) = SumFunctionOnSet(f, D) - w BY ONLY <2>7, <2>9, <2>10, <2>11
  <2>. QED BY <2>5, <2>12 DEF w
<1>7. \A u, t : ValueOf(O, Rests(O), u, t) \in Nat BY <1>5, ValueType
<1>. HIDE DEF v, o
<1>8. ASSUME NEW u \in User, NEW t \in Token
      PROVE  new[u][t].available \in Nat /\ new[u][t].frozen = ValueOf(P, Rests(P), u, t)
  <2>1. acc[u][t].available \in Nat /\ acc[u][t].frozen = ValueOf(O, Rests(O), u, t) BY DEF Covered
  <2>2. CASE u = o.who /\ t = PayToken(o.side)
    <3>1. ValueOf(P, Rests(P), u, t) = ValueOf(O, Rests(O), u, t) - v BY <1>6, <2>2
    <3>2. new[u][t] = [available |-> acc[u][t].available + v, frozen |-> acc[u][t].frozen - v]
      BY <1>3, <2>2
    <3>. QED BY <1>2, <2>1, <3>1, <3>2
  <2>3. CASE ~(u = o.who /\ t = PayToken(o.side))
    <3>1. ValueOf(P, Rests(P), u, t) = ValueOf(O, Rests(O), u, t) - 0 BY <1>6, <2>3
    <3>2. new[u][t] = acc[u][t] BY <1>3, <2>3
    <3>. QED BY <1>7, <2>1, <3>1, <3>2
  <2>. QED BY <2>2, <2>3
<1>. QED BY <1>8 DEF Covered

(* The sizes of such a proof are at most one order apart.                  *)
LEMMA CancelUnsigned ==
  ASSUME NEW O, Open(O), Uncrossed(O), NEW i \in DOMAIN O, NEW P, P = Restrict(O, DOMAIN O \ {i}),
         NEW acc, NEW p, p = CancelProof(O, i, P, acc)
  PROVE  Unsigned(p)
<1>1. /\ p.cmd.side = "cancel" /\ p.makers = {}
      /\ p.old = Tree(O, acc) /\ p.new = Tree(P, Unfrozen(acc, O[i]))
  BY DEF CancelProof
<1>2. \A s \in {"ask", "bid"} : p.old.size[s] = SizeOf(O, s) /\ p.new.size[s] = SizeOf(P, s)
  BY ONLY <1>1, TreeFields
<1>3. \A s : /\ SizeOf(O, s) \in Int
             /\ SizeOf(P, s) = SizeOf(O, s) - (IF O[i].side = s THEN O[i].rest ELSE 0)
  BY WithoutOrder
<1>4. O[i].rest \in Nat BY OrderFields
<1>5. ASSUME NEW s \in {"ask", "bid"} PROVE p.old.size[s] - p.new.size[s] \in Nat
  <2>. DEFINE w == IF O[i].side = s THEN O[i].rest ELSE 0
              x == SizeOf(O, s)
              y == SizeOf(P, s)
  <2>0. w \in Nat /\ x \in Int /\ y = x - w BY <1>3, <1>4
  <2>1. w \in Nat /\ x \in Int /\ p.old.size[s] = x /\ p.new.size[s] = x - w
    <3>. HIDE DEF w
    <3>. QED BY <1>2, <2>0
  <2>. HIDE DEF w, x
  <2>2. x - (x - w) = w BY <2>1
  <2>. QED BY <2>1, <2>2
<1>. QED BY <1>1, <1>5 DEF Unsigned

-----------------------------------------------------------------------------
(* A batch.  Its states are a function of the number of proofs applied.    *)
RunStep(f, s0, ps, k) == IF k = 0 THEN s0 ELSE verify_and_update(f[k - 1], ps[k])
IsRun(f, s0, ps, n) == f = [k \in 0..n |-> RunStep(f, s0, ps, k)]
Runner(s0, ps, n) == CHOOSE f : IsRun(f, s0, ps, n)

(* There is such a function.                                               *)
LEMMA RunExists ==
  ASSUME NEW s0, NEW ps, NEW n \in Nat
  PROVE  \E f : IsRun(f, s0, ps, n)
<1>. DEFINE Bad == {m \in Nat : ~ \E f : IsRun(f, s0, ps, m)}
<1>1. SUFFICES ASSUME Bad # {} PROVE FALSE BY Bad \subseteq Nat
<1>2. PICK m \in Bad : \A k \in Bad : m <= k BY <1>1, Bad \subseteq Nat, LeastNat
<1>3. CASE m = 0
  <2>. DEFINE f == [k \in 0..0 |-> s0]
  <2>1. IsRun(f, s0, ps, 0) BY DEF IsRun, RunStep
  <2>. QED BY <1>2, <1>3, <2>1
<1>4. CASE m # 0
  <2>1. m - 1 \in Nat /\ ~(m <= m - 1) BY <1>2, <1>4
  <2>2. m - 1 \notin Bad BY <1>2, <2>1
  <2>3. PICK g : IsRun(g, s0, ps, m - 1) BY <2>1, <2>2
  <2>. DEFINE f == [k \in 0..m |-> IF k = m THEN verify_and_update(g[m - 1], ps[m]) ELSE g[k]]
  <2>4. g = [k \in 0..(m - 1) |-> RunStep(g, s0, ps, k)] BY <2>3 DEF IsRun
  <2>5. ASSUME NEW k \in 0..m PROVE f[k] = RunStep(f, s0, ps, k)
    <3>1. CASE k = m
      <4>1. m - 1 \in 0..m /\ m - 1 # m /\ m \in 0..m BY <1>2, <1>4, <2>1
      <4>2. f[m - 1] = g[m - 1] BY <4>1
      <4>3. f[m] = verify_and_update(g[m - 1], ps[m]) BY <4>1
      <4>. QED BY <1>4, <3>1, <4>2, <4>3 DEF RunStep
    <3>2. CASE k # m
      <4>1. k \in 0..(m - 1) /\ (k # 0 => k - 1 \in 0..m /\ k - 1 # m) BY <1>2, <3>2
      <4>2. f[k] = g[k] /\ (k # 0 => f[k - 1] = g[k - 1]) BY <3>2, <4>1
      <4>3. g[k] = RunStep(g, s0, ps, k) BY <2>4, <4>1
      <4>. QED BY <4>2, <4>3 DEF RunStep
    <3>. QED BY <3>1, <3>2
  <2>6. f = [k \in 0..m |-> RunStep(f, s0, ps, k)]
    <3>. DEFINE h == [k \in 0..m |-> RunStep(f, s0, ps, k)]
    <3>1. \A k \in 0..m : f[k] = h[k] BY <2>5
    <3>2. DOMAIN f = 0..m /\ DOMAIN h = 0..m /\ f = [k \in 0..m |-> f[k]] /\ h = [k \in 0..m |-> h[k]] OBVIOUS
    <3>. QED BY ONLY <3>1, <3>2
  <2>. QED BY <1>2, <2>6 DEF IsRun
<1>. QED BY <1>3, <1>4

(* What the chain knows before a batch.                                    *)
Known == [ok |-> TRUE, root |-> root, reserve |-> reserve, fees |-> fees,
          volume |-> volume, amount |-> 0, vol |-> 0]

(* A batch applies its proofs one after the other.                         *)
LEMMA BatchIsRunner ==
  ASSUME NEW ps
  PROVE  verify_batch(ps) = Runner(Known, ps, Len(ps))[Len(ps)]
BY Zenon DEF verify_batch, Runner, IsRun, RunStep, Known

(* It starts from what the chain knows and applies one proof at a time.    *)
LEMMA RunnerSteps ==
  ASSUME NEW s0, NEW ps, NEW n \in Nat, NEW f, f = Runner(s0, ps, n)
  PROVE  /\ f[0] = s0
         /\ \A k \in 1..n : f[k] = verify_and_update(f[k - 1], ps[k])
<1>1. f = [k \in 0..n |-> RunStep(f, s0, ps, k)] BY RunExists DEF Runner, IsRun
<1>2. \A k \in 0..n : f[k] = RunStep(f, s0, ps, k)
  <2>. DEFINE h == [k \in 0..n |-> RunStep(f, s0, ps, k)]
  <2>1. \A k \in 0..n : h[k] = RunStep(f, s0, ps, k) OBVIOUS
  <2>2. f = h BY <1>1
  <2>. HIDE DEF h
  <2>. QED BY <2>1, <2>2
<1>. QED BY <1>2 DEF RunStep

(* A quotient of sums lies between the quotients.                          *)
LEMMA Mediant ==
  ASSUME NEW l1 \in Nat, NEW h1 \in Nat, NEW a1 \in Nat, NEW v1 \in Nat, l1 * a1 <= v1, v1 <= h1 * a1,
         NEW l2 \in Nat, NEW h2 \in Nat, NEW a2 \in Nat, NEW v2 \in Nat, l2 * a2 <= v2, v2 <= h2 * a2
  PROVE  \E l \in {l1, l2}, h \in {h1, h2} :
           /\ l \in Nat /\ h \in Nat
           /\ l * (a1 + a2) <= v1 + v2 /\ v1 + v2 <= h * (a1 + a2)
<1>1. ASSUME NEW l \in Nat PROVE l * (a1 + a2) = l * a1 + l * a2 /\ l * a1 \in Nat /\ l * a2 \in Nat OBVIOUS
<1>2. ASSUME NEW x \in Nat, NEW y \in Nat, x <= y PROVE x * a1 <= y * a1 /\ x * a2 <= y * a2
  <2>1. a1 * x <= a1 * y /\ a2 * x <= a2 * y BY <1>2, MulMono
  <2>. QED BY <2>1
<1>3. \E l \in {l1, l2} : l \in Nat /\ l * (a1 + a2) <= v1 + v2
  <2>1. CASE l1 <= l2
    <3>1. l1 * a2 <= l2 * a2 /\ l2 * a2 \in Nat BY <1>1, <1>2, <2>1
    <3>2. l1 * (a1 + a2) = l1 * a1 + l1 * a2 /\ l1 * a1 \in Nat /\ l1 * a2 \in Nat BY <1>1
    <3>3. l1 * (a1 + a2) <= v1 + v2 BY <3>1, <3>2
    <3>. QED BY <3>3
  <2>2. CASE l2 <= l1
    <3>1. l2 * a1 <= l1 * a1 /\ l1 * a1 \in Nat BY <1>1, <1>2, <2>2
    <3>2. l2 * (a1 + a2) = l2 * a1 + l2 * a2 /\ l2 * a1 \in Nat /\ l2 * a2 \in Nat BY <1>1
    <3>3. l2 * (a1 + a2) <= v1 + v2 BY <3>1, <3>2
    <3>. QED BY <3>3
  <2>. QED BY <2>1, <2>2
<1>4. \E h \in {h1, h2} : h \in Nat /\ v1 + v2 <= h * (a1 + a2)
  <2>1. CASE h1 <= h2
    <3>1. h1 * a1 <= h2 * a1 /\ h1 * a1 \in Nat BY <1>1, <1>2, <2>1
    <3>2. h2 * (a1 + a2) = h2 * a1 + h2 * a2 /\ h2 * a1 \in Nat /\ h2 * a2 \in Nat BY <1>1
    <3>3. v1 + v2 <= h2 * (a1 + a2) BY <3>1, <3>2
    <3>. QED BY <3>3
  <2>2. CASE h2 <= h1
    <3>1. h2 * a2 <= h1 * a2 /\ h2 * a2 \in Nat BY <1>1, <1>2, <2>2
    <3>2. h1 * (a1 + a2) = h1 * a1 + h1 * a2 /\ h1 * a1 \in Nat /\ h1 * a2 \in Nat BY <1>1
    <3>3. v1 + v2 <= h1 * (a1 + a2) BY <3>1, <3>2
    <3>. QED BY <3>3
  <2>. QED BY <2>1, <2>2
<1>. QED BY <1>3, <1>4

(* The ratio the chain keeps lies between bounds of the quotient.          *)
LEMMA RatioBetween ==
  ASSUME NEW v \in Nat, NEW a \in Nat \ {0}, NEW l \in Nat, NEW h \in Nat, l * a <= v, v <= h * a
  PROVE  /\ Ratio(v, a) \in Nat
         /\ l * Quintill <= Ratio(v, a) /\ Ratio(v, a) <= h * Quintill
<1>. DEFINE d == v \div a
            r == v % a
            Q == Quintill
            w == (r * Q) \div a
<1>0. Q \in Nat \ {0} BY IndicatorAssumption
<1>1. d \in Nat /\ r \in Nat /\ r < a /\ v = a * d + r
  <2>1. v \div a \in 0..v /\ v % a \in 0..(a - 1) /\ v = (a * (v \div a)) + (v % a) BY DivMod
  <2>. QED BY <2>1
<1>2. Ratio(v, a) = d * Q + w BY DEF Ratio, from_rational
<1>. HIDE DEF d, r, Q
<1>3. r * Q \in Nat /\ (r = 0 => r * Q = 0) /\ r * Q < a * Q
  <2>1. Q * r < Q * a BY <1>0, <1>1, MulMono
  <2>2. Q * r = r * Q /\ Q * a = a * Q /\ r * Q \in Nat /\ (r = 0 => r * Q = 0) BY <1>0, <1>1
  <2>. QED BY <2>1, <2>2
<1>. DEFINE q == r * Q
            y == q % a
<1>4. w \in Nat /\ a * w <= q
  <2>1. w = q \div a OBVIOUS
  <2>2. q \in Nat BY <1>3
  <2>. HIDE DEF w, q
  <2>3. w \in 0..q /\ y \in 0..(a - 1) /\ q = (a * w) + y BY <2>1, <2>2, DivMod
  <2>. HIDE DEF y
  <2>4. w \in Nat /\ y \in Nat BY <2>2, <2>3
  <2>. DEFINE z == a * w
  <2>5. z \in Nat /\ q = z + y BY <2>3, <2>4
  <2>. HIDE DEF z
  <2>6. z <= q BY <2>4, <2>5
  <2>. QED BY <2>4, <2>6 DEF z
<1>. HIDE DEF w, y
<1>5. w < Q /\ (r = 0 => w = 0)
  <2>1. a * w \in Nat /\ a * w <= r * Q BY <1>4
  <2>2. a * w < a * Q BY <1>0, <1>3, <2>1
  <2>3. w < Q BY <1>0, <1>4, <2>2, MulMono
  <2>4. r = 0 => a * w <= 0 BY <1>3, <2>1
  <2>5. w # 0 => a * 0 < a * w BY <1>4, MulMono
  <2>6. a * 0 = 0 OBVIOUS
  <2>7. r = 0 => w = 0 BY <2>1, <2>4, <2>5, <2>6
  <2>. QED BY <2>3, <2>7
<1>6. l <= d
  <2>1. a * l = l * a /\ l * a \in Nat /\ a * d \in Nat /\ a * (d + 1) = a * d + a BY <1>1
  <2>2. a * l < a * (d + 1) BY <1>1, <2>1
  <2>3. l < d + 1 BY <1>1, <2>2, MulMono
  <2>. QED BY <1>1, <2>3
<1>7. l * Q <= d * Q /\ d * Q \in Nat
  <2>1. Q * l <= Q * d BY <1>0, <1>1, <1>6, MulMono
  <2>2. Q * l = l * Q /\ Q * d = d * Q /\ d * Q \in Nat /\ l * Q \in Nat BY <1>0, <1>1
  <2>. QED BY <2>1, <2>2
<1>8. d * Q + w <= h * Q
  <2>1. a * h = h * a /\ h * a \in Nat /\ a * d \in Nat BY <1>1
  <2>2. CASE d < h
    <3>1. d + 1 <= h /\ d + 1 \in Nat BY <1>1, <2>2
    <3>2. Q * (d + 1) <= Q * h BY <1>0, <3>1, MulMono
    <3>3. Q * (d + 1) = d * Q + Q /\ Q * h = h * Q /\ h * Q \in Nat BY <1>0, <1>1
    <3>. QED BY <1>0, <1>4, <1>5, <1>7, <3>2, <3>3
  <2>3. CASE h <= d
    <3>1. a * h <= a * d BY <1>1, <2>3, MulMono
    <3>2. r = 0 /\ a * d = a * h BY <1>1, <2>1, <3>1
    <3>3. ~(h < d) BY <1>1, <3>2, MulMono
    <3>4. h = d BY <1>1, <2>3, <3>3
    <3>. QED BY <1>5, <1>7, <3>2, <3>4
  <2>. QED BY <1>1, <2>2, <2>3
<1>9. d * Q + w \in Nat /\ d * Q <= d * Q + w BY <1>4, <1>7
<1>10. l * Q \in Nat BY <1>0
<1>. QED BY <1>2, <1>7, <1>8, <1>9, <1>10 DEF Q

(* The records of the chain are right, in the middle of a batch too: they  *)
(* match the tree it knows, nothing is lost against what there was at the  *)
(* start, C, and what the batch traded was traded between prices of "at".  *)
Total(res, t) == SumFunctionOnSet([u \in User |-> res[u][t]], User)
Good(st, C, at) ==
  /\ st.reserve \in [User -> [Token -> Int]] /\ st.root.account \in Accounts
  /\ Matches(st.reserve, st.root)
  /\ st.fees \in [Token -> Nat]
  /\ \A t \in Token : Total(st.reserve, t) + st.fees[t] = C[t]
  /\ st.amount \in Nat /\ st.vol \in Nat /\ (st.amount = 0 => st.vol = 0)
  /\ st.amount # 0 => \E low, high \in at : /\ low \in Nat /\ high \in Nat
                                            /\ low * st.amount <= st.vol /\ st.vol <= high * st.amount

(* The prices of a batch stay between prices orders met at.                *)
LEMMA StepPrices ==
  ASSUME NEW st, NEW C, NEW at, Good(st, C, at), NEW p, Honest(p), p.at \subseteq at,
         NEW x, x = verify_and_update(st, p)
  PROVE  /\ x.amount \in Nat /\ x.vol \in Nat /\ (x.amount = 0 => x.vol = 0)
         /\ x.amount # 0 => \E low, high \in at : /\ low \in Nat /\ high \in Nat
                                                  /\ low * x.amount <= x.vol /\ x.vol <= high * x.amount
<1>. DEFINE a1 == st.amount
            v1 == st.vol
            a2 == matched_amount(p)
            v2 == matched_volume(p, p.cmd.who)
<1>1. /\ a1 \in Nat /\ v1 \in Nat /\ (a1 = 0 => v1 = 0)
      /\ a1 # 0 => \E low, high \in at : low \in Nat /\ high \in Nat /\ low * a1 <= v1 /\ v1 <= high * a1
  BY DEF Good
<1>2. CASE p.makers = {}
  <2>1. x.amount = a1 /\ x.vol = v1 BY <1>2 DEF verify_and_update
  <2>. QED BY <1>1, <2>1
<1>3. CASE p.makers # {}
  <2>1. x.amount = a1 + a2 /\ x.vol = v1 + v2 BY <1>3 DEF verify_and_update
  <2>2. /\ a2 \in Nat \ {0} /\ v2 \in Nat
        /\ \E low, high \in p.at : low \in Nat /\ high \in Nat /\ low * a2 <= v2 /\ v2 <= high * a2
    BY <1>3 DEF Honest
  <2>. HIDE DEF a1, v1, a2, v2
  <2>3. PICK l2 \in at, h2 \in at : l2 \in Nat /\ h2 \in Nat /\ l2 * a2 <= v2 /\ v2 <= h2 * a2 BY <2>2
  <2>4. CASE a1 = 0
    <3>1. x.amount = a2 /\ x.vol = v2 BY <1>1, <2>1, <2>2, <2>4
    <3>. QED BY <2>2, <2>3, <3>1
  <2>5. CASE a1 # 0
    <3>1. PICK l1 \in at, h1 \in at : l1 \in Nat /\ h1 \in Nat /\ l1 * a1 <= v1 /\ v1 <= h1 * a1 BY <1>1, <2>5
    <3>2. \E l \in {l1, l2}, h \in {h1, h2} :
            l \in Nat /\ h \in Nat /\ l * (a1 + a2) <= v1 + v2 /\ v1 + v2 <= h * (a1 + a2)
      <4>1. a2 \in Nat BY <2>2
      <4>. QED BY ONLY <1>1, <2>2, <2>3, <3>1, <4>1, Mediant
    <3>3. a1 + a2 \in Nat /\ v1 + v2 \in Nat /\ a1 + a2 # 0 BY <1>1, <2>2
    <3>. QED BY <2>1, <2>3, <3>1, <3>2, <3>3
  <2>. QED BY <2>4, <2>5
<1>. QED BY <1>2, <1>3

(* A proof that starts from the known tree keeps the records right.        *)
LEMMA StepKeeps ==
  ASSUME NEW st, NEW C, NEW at, Good(st, C, at), NEW p, Honest(p), p.at \subseteq at, p.old = st.root,
         NEW x, x = verify_and_update(st, p)
  PROVE  Good(x, C, at)
<1>1. /\ st.reserve \in [User -> [Token -> Int]] /\ Matches(st.reserve, st.root)
      /\ st.fees \in [Token -> Nat]
      /\ \A t \in Token : Total(st.reserve, t) + st.fees[t] = C[t]
  BY DEF Good
<1>2. /\ p.old.account \in Accounts /\ p.new.account \in Accounts
      /\ Mutated(p) \subseteq User
      /\ \A u \in User \ Mutated(p), t \in Token : Gain(p, u, t) = 0
      /\ \A t \in Token : /\ FeesOf(p)[t] \in Nat
                          /\ SumFunctionOnSet([u \in User |-> Gain(p, u, t)], User) = -FeesOf(p)[t]
  BY DEF Honest
<1>3. /\ x.root = p.new /\ x.reserve = clear(st.reserve, p)
      /\ x.fees = [t \in Token |-> st.fees[t] + FeesOf(p)[t]]
  BY DEF verify_and_update
<1>4. \A u \in User, t \in Token : AccountSum(p.new, u, t) \in Int /\ AccountSum(p.old, u, t) \in Int
  BY <1>2 DEF AccountSum, Accounts, Leaf
<1>5. \A u \in User, t \in Token : /\ st.reserve[u][t] = AccountSum(p.old, u, t)
                                   /\ Gain(p, u, t) = AccountSum(p.new, u, t) - AccountSum(p.old, u, t)
  BY <1>1 DEF Matches, Gain
<1>6. \A u \in User, t \in Token : x.reserve[u][t] = AccountSum(p.new, u, t)
  <2>. SUFFICES ASSUME NEW u \in User, NEW t \in Token PROVE x.reserve[u][t] = AccountSum(p.new, u, t) OBVIOUS
  <2>1. x.reserve[u][t] = IF u \in Mutated(p) THEN AccountSum(p.new, u, t) ELSE st.reserve[u][t]
    BY <1>3 DEF clear
  <2>. QED BY <1>2, <1>4, <1>5, <2>1
<1>7. Matches(x.reserve, x.root) BY <1>3, <1>6 DEF Matches
<1>8. x.reserve \in [User -> [Token -> Int]]
  <2>1. x.reserve = [u \in User |-> [t \in Token |->
           IF u \in Mutated(p) THEN AccountSum(p.new, u, t) ELSE st.reserve[u][t]]] BY <1>3 DEF clear
  <2>2. \A u \in User, t \in Token : st.reserve[u][t] \in Int BY <1>1
  <2>. QED BY <1>4, <2>1, <2>2
<1>9. x.fees \in [Token -> Nat]
  <2>1. \A t \in Token : st.fees[t] \in Nat /\ FeesOf(p)[t] \in Nat BY <1>1, <1>2
  <2>2. \A t \in Token : st.fees[t] + FeesOf(p)[t] \in Nat BY <2>1
  <2>. QED BY <1>3, <2>2
<1>10. ASSUME NEW t \in Token PROVE Total(x.reserve, t) + x.fees[t] = C[t]
  <2>. DEFINE f == [u \in User |-> st.reserve[u][t]]
              g == [u \in User |-> Gain(p, u, t)]
              h == [u \in User |-> x.reserve[u][t]]
  <2>1. IsFiniteSet(User) BY ClearingAssumption
  <2>2. \A u \in User : f[u] \in Int /\ g[u] \in Int /\ h[u] = f[u] + g[u] BY <1>4, <1>5, <1>6
  <2>3. x.fees[t] = st.fees[t] + FeesOf(p)[t] BY <1>3
  <2>. HIDE DEF f, g, h
  <2>4. SumFunctionOnSet(h, User) = SumFunctionOnSet(f, User) + SumFunctionOnSet(g, User)
    BY <2>1, <2>2, SumAdd
  <2>5. SumFunctionOnSet(f, User) \in Int BY <2>1, <2>2, SumInt
  <2>6. SumFunctionOnSet(g, User) = -FeesOf(p)[t] /\ FeesOf(p)[t] \in Nat /\ st.fees[t] \in Nat
        /\ SumFunctionOnSet(f, User) + st.fees[t] = C[t] /\ Total(x.reserve, t) = SumFunctionOnSet(h, User)
    BY <1>1, <1>2 DEF f, g, h, Total
  <2>. QED BY <2>3, <2>4, <2>5, <2>6
<1>11. /\ x.amount \in Nat /\ x.vol \in Nat /\ (x.amount = 0 => x.vol = 0)
       /\ x.amount # 0 => \E low, high \in at : /\ low \in Nat /\ high \in Nat
                                                /\ low * x.amount <= x.vol /\ x.vol <= high * x.amount
  BY StepPrices
<1>. QED BY <1>2, <1>3, <1>7, <1>8, <1>9, <1>10, <1>11 DEF Good

(* So does a batch that is accepted.                                       *)
LEMMA BatchKeeps ==
  ASSUME NEW s0, NEW C, NEW at, Good(s0, C, at), NEW ps, NEW n \in Nat,
         \A k \in 1..n : Honest(ps[k]) /\ ps[k].at \subseteq at,
         NEW f, f = Runner(s0, ps, n)
  PROVE  \A k \in 0..n : f[k].ok => Good(f[k], C, at)
<1>. DEFINE Bad == {k \in Nat : k \in 0..n /\ f[k].ok /\ ~Good(f[k], C, at)}
<1>1. SUFFICES ASSUME Bad # {} PROVE FALSE BY \A k \in 0..n : k \in Nat
<1>2. PICK m \in Bad : \A k \in Bad : m <= k BY <1>1, Bad \subseteq Nat, LeastNat
<1>3. f[0] = s0 /\ \A k \in 1..n : f[k] = verify_and_update(f[k - 1], ps[k]) BY RunnerSteps
<1>4. m # 0 BY <1>2, <1>3
<1>5. m \in 1..n /\ m - 1 \in Nat /\ m - 1 \in 0..n /\ ~(m <= m - 1) BY <1>2, <1>4
<1>6. f[m] = verify_and_update(f[m - 1], ps[m]) BY <1>3, <1>5
<1>7. f[m].ok /\ ~Good(f[m], C, at) BY <1>2
<1>8. f[m - 1].ok /\ ps[m].old = f[m - 1].root
  <2>1. f[m].ok = (f[m - 1].ok /\ ps[m].old = f[m - 1].root /\ Verified(ps[m], f[m - 1].reserve))
    BY <1>6 DEF verify_and_update
  <2>. QED BY <1>7, <2>1
<1>9. Good(f[m - 1], C, at)
  <2>1. m - 1 \notin Bad BY <1>2, <1>5
  <2>. QED BY <1>5, <1>8, <2>1
<1>10. Good(f[m], C, at) BY <1>5, <1>6, <1>8, <1>9, StepKeeps
<1>. QED BY <1>7, <1>10

(* A batch of honest proofs, each starting where the one before ended and  *)
(* the first one from the known tree, is accepted.                         *)
LEMMA BatchAccepted ==
  ASSUME NEW s0, NEW C, NEW at, Good(s0, C, at), s0.ok, NEW ps, NEW n \in Nat,
         \A k \in 1..n : Honest(ps[k]) /\ ps[k].at \subseteq at,
         n # 0 => ps[1].old = s0.root, \A k \in 2..n : ps[k].old = ps[k - 1].new,
         NEW f, f = Runner(s0, ps, n)
  PROVE  f[n].ok
<1>. DEFINE Bad == {k \in Nat : k \in 0..n /\ ~f[k].ok}
<1>1. SUFFICES ASSUME Bad # {} PROVE FALSE BY n \in 0..n
<1>2. PICK m \in Bad : \A k \in Bad : m <= k BY <1>1, Bad \subseteq Nat, LeastNat
<1>3. f[0] = s0 /\ \A k \in 1..n : f[k] = verify_and_update(f[k - 1], ps[k]) BY RunnerSteps
<1>4. m # 0 BY <1>2, <1>3
<1>5. m \in 1..n /\ m - 1 \in Nat /\ m - 1 \in 0..n /\ ~(m <= m - 1) BY <1>2, <1>4
<1>6. f[m] = verify_and_update(f[m - 1], ps[m]) BY <1>3, <1>5
<1>7. f[m - 1].ok
  <2>1. m - 1 \notin Bad BY <1>2, <1>5
  <2>. QED BY <1>5, <2>1
<1>8. Good(f[m - 1], C, at) BY <1>5, <1>7, BatchKeeps
<1>9. ps[m].old = f[m - 1].root
  <2>1. CASE m = 1 BY <1>3, <1>5, <2>1
  <2>2. CASE m # 1
    <3>1. m - 1 \in 1..n /\ m \in 2..n BY <1>5, <2>2
    <3>2. f[m - 1] = verify_and_update(f[(m - 1) - 1], ps[m - 1]) BY <1>3, <3>1
    <3>3. f[m - 1].root = ps[m - 1].new BY <3>2 DEF verify_and_update
    <3>. QED BY <3>1, <3>3
  <2>. QED BY <2>1, <2>2
<1>10. Verified(ps[m], f[m - 1].reserve)
  <2>1. Matches(f[m - 1].reserve, ps[m].old) BY <1>8, <1>9 DEF Good
  <2>. QED BY <1>5, <2>1 DEF Honest
<1>11. f[m].ok
  <2>. DEFINE y == f[m - 1]
  <2>1. f[m].ok = (y.ok /\ ps[m].old = y.root /\ Verified(ps[m], y.reserve))
    BY <1>6 DEF verify_and_update
  <2>. HIDE DEF y
  <2>2. y.ok /\ ps[m].old = y.root /\ Verified(ps[m], y.reserve) BY <1>7, <1>9, <1>10 DEF y
  <2>. QED BY ONLY <2>1, <2>2
<1>. QED BY <1>2, <1>11

(* What the chain records of accounts and volumes is never negative, in    *)
(* the middle of a batch either.                                           *)
Recorded(st) == Natural(st.root) /\ st.volume \in [User -> Nat]

(* A proof that is honest and unsigned keeps the records so.               *)
LEMMA StepRecords ==
  ASSUME NEW st, Recorded(st), NEW p, Honest(p), Unsigned(p), Natural(p.new),
         NEW x, x = verify_and_update(st, p)
  PROVE  Recorded(x)
<1>. DEFINE c == p.cmd
            M == p.makers
            pay == PayToken(c.side)
            get == GetToken(c.side)
<1>1. x.root = p.new BY DEF verify_and_update
<1>2. x.volume = [u \in User |-> IF u \in Mutated(p) THEN st.volume[u] + matched_volume(p, u) ELSE st.volume[u]]
  BY DEF verify_and_update
<1>3. \A u \in User : st.volume[u] \in Nat BY DEF Recorded
<1>4. ASSUME NEW u \in Mutated(p) PROVE matched_volume(p, u) \in Nat
  <2>1. M # {} /\ (u = c.who \/ u \in M) BY <1>4 DEF Mutated
  <2>2. UnsignedTrade(p, pay, get) BY <2>1 DEF Unsigned
  <2>. HIDE DEF pay, get
  <2>3. c.side \in {"ask", "bid"} /\ \A m \in M : Gain(p, m, pay) \in Nat /\ Loss(p, m, get) \in Nat
    BY <2>2 DEF UnsignedTrade
  <2>4. CASE u = c.who BY <2>1, <2>4 DEF Honest
  <2>5. CASE u # c.who
    <3>1. u \in M /\ Gain(p, u, pay) \in Nat /\ Loss(p, u, get) \in Nat BY <2>1, <2>3, <2>5
    <3>2. /\ c.side = "ask" => get = Quote
          /\ c.side = "bid" => pay = Quote
      BY DEF pay, get, PayToken, GetToken
    <3>3. matched_volume(p, u) = IF c.side = "ask" THEN Loss(p, u, Quote) ELSE Gain(p, u, Quote)
      BY <2>5 DEF matched_volume
    <3>. QED BY <2>3, <3>1, <3>2, <3>3
  <2>. QED BY <2>4, <2>5
<1>5. x.volume \in [User -> Nat]
  <2>1. \A u \in User : (IF u \in Mutated(p) THEN st.volume[u] + matched_volume(p, u) ELSE st.volume[u]) \in Nat
    BY <1>3, <1>4
  <2>. QED BY <1>2, <2>1
<1>. QED BY <1>1, <1>5 DEF Recorded

(* So does a batch.                                                        *)
LEMMA BatchRecords ==
  ASSUME NEW s0, Recorded(s0), NEW ps, NEW n \in Nat,
         \A k \in 1..n : Honest(ps[k]) /\ Unsigned(ps[k]) /\ Natural(ps[k].new),
         NEW f, f = Runner(s0, ps, n)
  PROVE  \A k \in 0..n : Recorded(f[k])
<1>. DEFINE Bad == {k \in Nat : k \in 0..n /\ ~Recorded(f[k])}
<1>1. SUFFICES ASSUME Bad # {} PROVE FALSE BY \A k \in 0..n : k \in Nat
<1>2. PICK m \in Bad : \A k \in Bad : m <= k BY <1>1, Bad \subseteq Nat, LeastNat
<1>3. f[0] = s0 /\ \A k \in 1..n : f[k] = verify_and_update(f[k - 1], ps[k]) BY RunnerSteps
<1>4. m # 0 BY <1>2, <1>3
<1>5. m \in 1..n /\ m - 1 \in Nat /\ m - 1 \in 0..n /\ ~(m <= m - 1) BY <1>2, <1>4
<1>6. f[m] = verify_and_update(f[m - 1], ps[m]) BY <1>3, <1>5
<1>7. Recorded(f[m - 1])
  <2>1. m - 1 \notin Bad BY <1>2, <1>5
  <2>. QED BY <1>5, <2>1
<1>8. Recorded(f[m]) BY <1>5, <1>6, <1>7, StepRecords
<1>. QED BY <1>2, <1>8

-----------------------------------------------------------------------------
(* The matcher's proofs so far are a sequence.                             *)
IsSequence(s) == s \in Seq({s[k] : k \in DOMAIN s})

Appended(s, e, t) ==
  /\ Len(s) \in Nat /\ DOMAIN s = 1..Len(s)
  /\ IsSequence(t) /\ Len(t) = Len(s) + 1
  /\ \A k \in 1..Len(s) : t[k] = s[k]
  /\ t[Len(s) + 1] = e

(* A sequence with one more element.                                       *)
LEMMA AppendOne ==
  ASSUME NEW s, IsSequence(s), NEW e, NEW t, t = Append(s, e)
  PROVE  Appended(s, e, t)
<1>. DEFINE S == {s[k] : k \in DOMAIN s} \cup {e}
            n == Len(t)
            U == {t[k] : k \in DOMAIN t}
<1>1. s \in Seq({s[k] : k \in DOMAIN s}) /\ {s[k] : k \in DOMAIN s} \subseteq S BY DEF IsSequence
<1>. HIDE DEF S
<1>2. s \in Seq(S) BY <1>1, SeqMonotonic
<1>3. e \in S BY DEF S
<1>4. Len(s) \in Nat /\ DOMAIN s = 1..Len(s) BY <1>2, LenProperties
<1>5. /\ t \in Seq(S) /\ n = Len(s) + 1
      /\ \A k \in 1..Len(s) : t[k] = s[k]
      /\ t[Len(s) + 1] = e
  BY <1>2, <1>3
<1>6. n \in Nat /\ t \in [1..n -> S] BY <1>5, LenProperties
<1>7. t \in [1..n -> U] BY <1>6
<1>. HIDE DEF n, U
<1>8. t \in Seq(U) BY <1>6, <1>7, SeqDef
<1>. QED BY <1>4, <1>5, <1>8 DEF n, U, IsSequence, Appended

(* A part of a sequence.                                                   *)
LEMMA PartOf ==
  ASSUME NEW s, IsSequence(s), NEW i \in DOMAIN s, NEW j \in i..Len(s), NEW ps, ps = SubSeq(s, i, j)
  PROVE  /\ Len(ps) = j - i + 1 /\ Len(ps) \in Nat \ {0} /\ i \in 1..Len(s) /\ j \in 1..Len(s)
         /\ \A k \in 1..Len(ps) : i + k - 1 \in i..j /\ i + k - 1 \in 1..Len(s) /\ ps[k] = s[i + k - 1]
<1>. DEFINE S == {s[k] : k \in DOMAIN s}
<1>1. s \in Seq(S) BY DEF IsSequence
<1>. HIDE DEF S
<1>2. Len(s) \in Nat /\ DOMAIN s = 1..Len(s) BY <1>1, LenProperties
<1>3. i \in 1..Len(s) /\ j \in 1..Len(s) /\ i \in Int /\ j \in Int /\ i <= j BY <1>2
<1>4. \A k \in i..j : k \in 1..Len(s) /\ s[k] \in S BY <1>1, <1>2, <1>3, ElementOfSeq
<1>5. /\ Len(ps) = IF i <= j THEN j - i + 1 ELSE 0
      /\ \A k \in 1..(j - i + 1) : ps[k] = s[i + k - 1]
  BY <1>3, <1>4, SubSeqProperties
<1>6. Len(ps) = j - i + 1 /\ Len(ps) \in Nat \ {0} BY <1>3, <1>5
<1>7. \A k \in 1..(j - i + 1) : i + k - 1 \in i..j /\ i + k - 1 \in 1..Len(s) BY <1>2, <1>3
<1>. QED BY <1>3, <1>5, <1>6, <1>7

-----------------------------------------------------------------------------
(* The inductive invariant: the tree is that of the open orders, every     *)
(* proof is honest and starts where the one before ended, and the chain's  *)
(* records are right.                                                      *)
PaidPrices == UNION {sent[i].at : i \in DOMAIN sent}
Deposits == [t \in Token |-> SumFunctionOnSet([u \in User |-> Funds[u][t]], User)]

OrdersInv ==
  /\ Open(orders) /\ Uncrossed(orders) /\ DOMAIN orders \subseteq 1..Len(sent)
  /\ book.account \in Accounts /\ book = Tree(orders, book.account)

SentInv ==
  /\ IsSequence(sent)
  /\ \A k \in 1..Len(sent) : Honest(sent[k])
  /\ \A k \in 1..Len(sent) : k # Len(sent) => sent[k].new = sent[k + 1].old
  /\ Len(sent) # 0 => sent[Len(sent)].new = book

PricesInv ==
  /\ prices \in [{Base} -> Nat]
  /\ prices[Base] # 0 =>
       \E low, high \in PaidPrices : /\ low \in Nat /\ high \in Nat
                                     /\ low * Quintill <= prices[Base] /\ prices[Base] <= high * Quintill

Inv == OrdersInv /\ SentInv /\ Good(Known, Deposits, PaidPrices) /\ PricesInv

(* The invariant holds at the start.                                       *)
LEMMA InitInv == Init => Inv
<1>. SUFFICES ASSUME Init PROVE Inv OBVIOUS
<1>. DEFINE acc == [u \in User |-> [t \in Token |-> [available |-> Funds[u][t], frozen |-> 0]]]
<1>1. /\ orders = <<>> /\ book = Tree(<<>>, acc) /\ sent = <<>> /\ root = book /\ reserve = Funds
      /\ fees = [t \in Token |-> 0] /\ prices = [t \in {Base} |-> 0]
  BY DEF Init
<1>2. Funds \in [User -> [Token -> Nat]] /\ IsFiniteSet(User) BY ClearingAssumption
<1>3. acc \in Accounts /\ \A u \in User, t \in Token : SumAt(acc, u, t) = Funds[u][t]
  BY <1>2 DEF Accounts, Leaf, SumAt
<1>. HIDE DEF acc
<1>4. book.account = acc BY <1>1 DEF Tree
<1>5. OrdersInv
  <2>1. DOMAIN orders = {} BY <1>1
  <2>2. IsFiniteSet(DOMAIN orders) BY <2>1, FS_EmptySet
  <2>. QED BY <1>1, <1>3, <1>4, <2>1, <2>2 DEF OrdersInv, Open, Uncrossed
<1>6. SentInv
  <2>1. IsSequence(sent) BY <1>1, EmptySeq DEF IsSequence
  <2>2. Len(sent) = 0 BY <1>1
  <2>. QED BY <2>1, <2>2 DEF SentInv
<1>7. Good(Known, Deposits, PaidPrices)
  <2>1. /\ Known.reserve = Funds /\ Known.root = book /\ Known.fees = [t \in Token |-> 0]
        /\ Known.amount = 0 /\ Known.vol = 0
    BY <1>1 DEF Known
  <2>2. Known.reserve \in [User -> [Token -> Int]] BY <1>2, <2>1
  <2>3. Matches(Known.reserve, Known.root) BY <1>3, <1>4, <2>1 DEF Matches, AccountSum, SumAt
  <2>4. Known.fees \in [Token -> Nat] BY <2>1
  <2>5. ASSUME NEW t \in Token PROVE Total(Known.reserve, t) + Known.fees[t] = Deposits[t]
    <3>. DEFINE f == [u \in User |-> Funds[u][t]]
    <3>1. \A u \in User : f[u] \in Int BY <1>2
    <3>. HIDE DEF f
    <3>2. SumFunctionOnSet(f, User) \in Int BY <1>2, <3>1, SumInt
    <3>3. Total(Known.reserve, t) = SumFunctionOnSet(f, User) /\ Deposits[t] = SumFunctionOnSet(f, User)
      BY <2>1 DEF Total, Deposits, f
    <3>. QED BY <2>1, <3>2, <3>3
  <2>. QED BY <1>3, <1>4, <2>1, <2>2, <2>3, <2>4, <2>5 DEF Good
<1>8. PricesInv BY <1>1 DEF PricesInv
<1>. QED BY <1>5, <1>6, <1>7, <1>8 DEF Inv

(* A proof the matcher adds.                                               *)
LEMMA MatcherAdds ==
  ASSUME SentInv, Good(Known, Deposits, PaidPrices), PricesInv,
         NEW e, Honest(e), e.old = book, e.new = book', sent' = Append(sent, e),
         UNCHANGED <<root, reserve, fees, volume, prices>>
  PROVE  SentInv' /\ Good(Known, Deposits, PaidPrices)' /\ PricesInv'
<1>1. IsSequence(sent) BY DEF SentInv
<1>2. /\ Len(sent) \in Nat /\ DOMAIN sent = 1..Len(sent)
      /\ IsSequence(sent') /\ Len(sent') = Len(sent) + 1
      /\ \A k \in 1..Len(sent) : sent'[k] = sent[k]
      /\ sent'[Len(sent) + 1] = e
  <2>1. sent' = Append(sent, e) OBVIOUS
  <2>2. Appended(sent, e, sent') BY ONLY <1>1, <2>1, AppendOne
  <2>. QED BY ONLY <2>2 DEF Appended
<1>3. DOMAIN sent' = 1..(Len(sent) + 1)
  BY <1>2, LenProperties DEF IsSequence
<1>4. \A k \in 1..(Len(sent) + 1) : k \in 1..Len(sent) \/ k = Len(sent) + 1 BY <1>2
<1>5. SentInv'
  <2>1. \A k \in 1..Len(sent') : Honest(sent'[k])
    <3>1. \A k \in 1..Len(sent) : Honest(sent[k]) BY DEF SentInv
    <3>. QED BY <1>2, <1>4, <3>1
  <2>2. \A k \in 1..Len(sent') : k # Len(sent') => sent'[k].new = sent'[k + 1].old
    <3>. DEFINE l == Len(sent)
    <3>1. /\ l \in Nat
          /\ l # 0 => sent[l].new = book
          /\ \A k \in 1..l : k # l => sent[k].new = sent[k + 1].old
      BY <1>2 DEF SentInv
    <3>2. /\ \A k \in 1..l : sent'[k] = sent[k]
          /\ sent'[l + 1] = e /\ Len(sent') = l + 1
      BY <1>2
    <3>3. e.old = book OBVIOUS
    <3>. HIDE DEF l
    <3>4. \A k \in 1..(l + 1) : k # l + 1 => sent'[k].new = sent'[k + 1].old
      <4>. SUFFICES ASSUME NEW k \in 1..(l + 1), k # l + 1 PROVE sent'[k].new = sent'[k + 1].old OBVIOUS
      <4>1. k \in 1..l BY ONLY <3>1, k \in 1..(l + 1), k # l + 1
      <4>2. sent'[k].new = sent[k].new BY <3>2, <4>1
      <4>3. CASE k = l BY <3>1, <3>2, <3>3, <4>2, <4>1, <4>3
      <4>4. CASE k # l
        <5>1. k + 1 \in 1..l BY ONLY <3>1, <4>1, <4>4
        <5>2. sent[k].new = sent[k + 1].old BY <3>1, <4>1, <4>4
        <5>. QED BY <3>2, <4>2, <5>1, <5>2
      <4>. QED BY <4>3, <4>4
    <3>. QED BY ONLY <3>2, <3>4
  <2>3. Len(sent') # 0 => sent'[Len(sent')].new = book'
    <3>. DEFINE m == Len(sent')
    <3>1. sent'[m] = e BY <1>2
    <3>. HIDE DEF m
    <3>2. sent'[m].new = book' BY <3>1
    <3>. QED BY <3>2 DEF m
  <2>4. IsSequence(sent') BY <1>2
  <2>. QED BY <2>1, <2>2, <2>3, <2>4 DEF SentInv
<1>6. PaidPrices \subseteq PaidPrices'
  <2>1. \A k \in DOMAIN sent : k \in DOMAIN sent' /\ sent'[k] = sent[k] BY <1>2, <1>3
  <2>. QED BY <2>1 DEF PaidPrices
<1>7. Known' = Known /\ Deposits' = Deposits BY DEF Known, Deposits
<1>8. Good(Known, Deposits, PaidPrices)'
  <2>1. Good(Known, Deposits, PaidPrices') BY <1>6 DEF Good
  <2>. QED BY <1>7, <2>1
<1>9. PricesInv' BY <1>6 DEF PricesInv
<1>. QED BY <1>5, <1>8, <1>9

(* Executing an order keeps the invariant.                                 *)
LEMMA ExecuteInv ==
  ASSUME Inv, NEW c \in Cmd, Execute(c)
  PROVE  Inv'
<1>. DEFINE F == Fills(orders, c)
            R == Rest(orders, c)
            n == Len(sent) + 1
            P == OrdersAfter(orders, c, F, R, n)
            acc == book.account
            new == AccountsAfter(acc, orders, c, F, R)
            e == TradeProof(orders, c, F, R, P, acc)
<1>1. /\ Leaves(e) < U8 /\ orders' = P /\ book' = Tree(P, new) /\ sent' = Append(sent, e)
      /\ UNCHANGED <<root, reserve, fees, volume, prices>>
  <2>1. book = Tree(orders, book.account) BY DEF Inv, OrdersInv
  <2>2. e = [cmd |-> c, makers |-> {orders[i].who : i \in Filled(F)}, pages |-> PagesOf(orders, c, F, R),
             at |-> {orders[i].price : i \in Filled(F)}, old |-> book, new |-> Tree(P, new)]
    BY <2>1 DEF TradeProof
  <2>. QED BY <2>2 DEF Execute
<1>2. Len(sent) \in Nat /\ DOMAIN sent = 1..Len(sent)
  <2>1. IsSequence(sent) BY DEF Inv, SentInv
  <2>. QED BY <2>1, LenProperties DEF IsSequence
<1>3. Trade(orders, c, F, R, n, P)
  <2>1. n \in Nat /\ n \notin DOMAIN orders BY <1>2 DEF Inv, OrdersInv
  <2>. QED BY <2>1 DEF Inv, OrdersInv, Trade
<1>4. acc \in Accounts BY DEF Inv, OrdersInv
<1>5. Honest(e)
  <2>. HIDE DEF F, R, n, P, acc, new
  <2>. QED BY <1>1, <1>3, <1>4, TradeHonest
<1>6. new \in Accounts
  <2>. HIDE DEF F, R, n, P, acc
  <2>. QED BY <1>3, <1>4, AccountsFacts
<1>7. Open(P) /\ Uncrossed(P) /\ \A i \in DOMAIN P : i = n \/ i \in DOMAIN orders
  <2>. HIDE DEF n
  <2>1. Open(orders) /\ Uncrossed(orders) /\ n \in Nat /\ n \notin DOMAIN orders BY <1>3 DEF Trade
  <2>2. Open(P) /\ \A i \in DOMAIN P : i = n \/ i \in DOMAIN orders BY <2>1, AfterFields
  <2>3. Uncrossed(P) BY <2>1, AfterUncrossed
  <2>. QED BY <2>2, <2>3
<1>8. Len(sent') = Len(sent) + 1
  <2>. HIDE DEF e
  <2>1. IsSequence(sent) BY DEF Inv, SentInv
  <2>2. Appended(sent, e, sent') BY <1>1, <2>1, AppendOne
  <2>. QED BY ONLY <2>2 DEF Appended
<1>9. book'.account = new /\ e.old = book /\ e.new = book'
  <2>1. Tree(P, new).account = new BY DEF Tree
  <2>2. e.old = Tree(orders, acc) /\ e.new = Tree(P, new) BY DEF TradeProof
  <2>3. book = Tree(orders, acc) BY DEF Inv, OrdersInv
  <2>. HIDE DEF F, R, n, P, acc, new, e
  <2>. QED BY <1>1, <2>1, <2>2, <2>3
<1>10. OrdersInv'
  <2>. HIDE DEF F, R, P, acc, new, e
  <2>1. DOMAIN orders' \subseteq 1..Len(sent') BY <1>1, <1>2, <1>7, <1>8 DEF Inv, OrdersInv
  <2>. QED BY <1>1, <1>6, <1>7, <1>9, <2>1 DEF OrdersInv
<1>11. SentInv' /\ Good(Known, Deposits, PaidPrices)' /\ PricesInv'
  <2>. HIDE DEF F, R, n, P, acc, new, e
  <2>. QED BY <1>1, <1>5, <1>9, MatcherAdds DEF Inv
<1>. QED BY <1>10, <1>11 DEF Inv

(* Withdrawing an order keeps the invariant.                               *)
LEMMA CancelInv ==
  ASSUME Inv, NEW i \in DOMAIN orders, CancelOrder(i)
  PROVE  Inv'
<1>. DEFINE P == Restrict(orders, DOMAIN orders \ {i})
            acc == book.account
            new == Unfrozen(acc, orders[i])
            e == CancelProof(orders, i, P, acc)
<1>0. book = Tree(orders, acc) /\ Open(orders) /\ Uncrossed(orders) /\ acc \in Accounts BY DEF Inv, OrdersInv
<1>1. /\ orders' = P /\ book' = Tree(P, new) /\ sent' = Append(sent, e)
      /\ UNCHANGED <<root, reserve, fees, volume, prices>>
  BY <1>0 DEF CancelOrder, CancelProof
<1>2. Len(sent) \in Nat /\ IsSequence(sent)
  <2>1. IsSequence(sent) BY DEF Inv, SentInv
  <2>. QED BY <2>1, LenProperties DEF IsSequence
<1>. HIDE DEF P, acc
<1>3. Honest(e) BY <1>0, CancelHonest DEF P
<1>4. new \in Accounts
  <2>1. orders[i] \in Order BY <1>0 DEF Open
  <2>. QED BY <1>0, <2>1, UnfrozenSums
<1>5. Open(P) /\ Uncrossed(P) /\ DOMAIN P = DOMAIN orders \ {i}
  <2>1. P = Restrict(orders, DOMAIN orders \ {i}) /\ i \in DOMAIN orders BY DEF P
  <2>. QED BY ONLY <1>0, <2>1, OthersOpen
<1>6. e.old = book /\ e.new = Tree(P, new) /\ Tree(P, new).account = new BY <1>0 DEF CancelProof, Tree
<1>. HIDE DEF new, e
<1>7. Len(sent') = Len(sent) + 1
  <2>1. Appended(sent, e, sent') BY <1>1, <1>2, AppendOne
  <2>. QED BY ONLY <2>1 DEF Appended
<1>8. OrdersInv'
  <2>1. DOMAIN orders' \subseteq 1..Len(sent') BY <1>1, <1>2, <1>5, <1>7 DEF Inv, OrdersInv
  <2>. QED BY <1>1, <1>4, <1>5, <1>6, <2>1 DEF OrdersInv
<1>9. SentInv' /\ Good(Known, Deposits, PaidPrices)' /\ PricesInv'
  BY <1>1, <1>3, <1>6, MatcherAdds DEF Inv
<1>. QED BY <1>8, <1>9 DEF Inv

(* Applying a batch keeps the invariant, whenever it is handed in.         *)
LEMMA VerifyInv ==
  ASSUME Inv, NEW i \in DOMAIN sent, NEW j \in i..Len(sent), verify(i, j)
  PROVE  Inv'
<1>. DEFINE ps == SubSeq(sent, i, j)
            n == Len(ps)
            f == Runner(Known, ps, n)
            x == f[n]
            at == PaidPrices
<1>1. IsSequence(sent) /\ \A k \in 1..Len(sent) : Honest(sent[k]) BY DEF Inv, SentInv
<1>2. /\ n \in Nat \ {0}
      /\ \A k \in 1..n : i + k - 1 \in 1..Len(sent) /\ ps[k] = sent[i + k - 1]
  BY <1>1, PartOf
<1>3. DOMAIN sent = 1..Len(sent)
  BY <1>1, LenProperties DEF IsSequence
<1>4. \A k \in 1..n : Honest(ps[k]) /\ ps[k].at \subseteq at BY <1>1, <1>2, <1>3 DEF PaidPrices
<1>5. verify_batch(ps) = x BY BatchIsRunner
<1>6. /\ x.ok /\ root' = x.root /\ reserve' = x.reserve /\ fees' = x.fees
      /\ IF x.amount = 0 THEN UNCHANGED prices ELSE set_price(Base, x.amount, x.vol)
      /\ orders' = orders /\ book' = book /\ sent' = sent
  BY <1>5 DEF verify, matcher
<1>7. Good(x, Deposits, at)
  <2>1. Good(Known, Deposits, at) BY DEF Inv
  <2>2. n \in Nat /\ n \in 0..n BY <1>2
  <2>. HIDE DEF ps, n, at
  <2>3. \A k \in 0..n : f[k].ok => Good(f[k], Deposits, at) BY <1>4, <2>1, <2>2, BatchKeeps
  <2>. QED BY <1>6, <2>2, <2>3
<1>. HIDE DEF x, f, n, ps
<1>8. at' = at /\ Deposits' = Deposits BY <1>6 DEF PaidPrices, Deposits
<1>9. Good(Known, Deposits, PaidPrices)'
  <2>1. /\ Known'.root = x.root /\ Known'.reserve = x.reserve /\ Known'.fees = x.fees
        /\ Known'.amount = 0 /\ Known'.vol = 0
    BY <1>6 DEF Known
  <2>2. Good(Known', Deposits, at) BY <1>7, <2>1 DEF Good
  <2>. QED BY <1>8, <2>2
<1>10. PricesInv'
  <2>1. CASE x.amount = 0
    <3>1. prices' = prices BY <1>6, <2>1
    <3>. QED BY <1>8, <3>1 DEF Inv, PricesInv
  <2>2. CASE x.amount # 0
    <3>1. prices' = [prices EXCEPT ![Base] = Ratio(x.vol, x.amount)] BY <1>6, <2>2 DEF set_price
    <3>2. /\ x.amount \in Nat \ {0} /\ x.vol \in Nat
          /\ \E low, high \in at : /\ low \in Nat /\ high \in Nat
                                   /\ low * x.amount <= x.vol /\ x.vol <= high * x.amount
      BY <1>7, <2>2 DEF Good
    <3>3. PICK low \in at, high \in at : /\ low \in Nat /\ high \in Nat
                                         /\ low * x.amount <= x.vol /\ x.vol <= high * x.amount
      BY <3>2
    <3>4. /\ Ratio(x.vol, x.amount) \in Nat
          /\ low * Quintill <= Ratio(x.vol, x.amount) /\ Ratio(x.vol, x.amount) <= high * Quintill
      BY <3>2, <3>3, RatioBetween
    <3>5. prices \in [{Base} -> Nat] BY DEF Inv, PricesInv
    <3>6. prices' \in [{Base} -> Nat] /\ prices'[Base] = Ratio(x.vol, x.amount) BY <3>1, <3>4, <3>5
    <3>. HIDE DEF at
    <3>7. \E l, h \in at : /\ l \in Nat /\ h \in Nat
                           /\ l * Quintill <= prices'[Base] /\ prices'[Base] <= h * Quintill
      BY <3>3, <3>4, <3>6
    <3>. QED BY <1>8, <3>6, <3>7 DEF PricesInv, at
  <2>. QED BY <2>1, <2>2
<1>11. OrdersInv' /\ SentInv' BY <1>6 DEF Inv, OrdersInv, SentInv
<1>. QED BY <1>9, <1>10, <1>11 DEF Inv

(* Every step keeps the invariant.                                         *)
LEMMA StepInv == Inv /\ [Next]_vars => Inv'
<1>. SUFFICES ASSUME Inv, [Next]_vars PROVE Inv' OBVIOUS
<1>1. CASE \E c \in Cmd : Execute(c) BY <1>1, ExecuteInv
<1>2. CASE \E i \in DOMAIN orders : CancelOrder(i) BY <1>2, CancelInv
<1>3. CASE \E i \in DOMAIN sent : \E j \in i..Len(sent) : verify(i, j) BY <1>3, VerifyInv
<1>4. CASE UNCHANGED vars
  BY <1>4 DEF vars, Inv, OrdersInv, SentInv, PricesInv, Good, Known, Deposits, PaidPrices
<1>. QED BY <1>1, <1>2, <1>3, <1>4 DEF Next

(* The matcher's tree and its proofs stay in step with the open orders,    *)
(* and the chain's records with the tree it knows.                         *)
THEOREM ClearingInv == Spec => []Inv
<1>1. Init => Inv BY InitInv
<1>2. Inv /\ [Next]_vars => Inv' BY StepInv
<1>. QED BY <1>1, <1>2, PTL DEF Spec

(* What the chain keeps for a user is what the leaves it knows say, for    *)
(* any number of users, prices, pages and orders.                          *)
THEOREM ReservesAreLeaves == Spec => []ReservesFollow
<1>1. Inv => ReservesFollow
  BY DEF Inv, Good, Known, Matches, AccountSum, ReservesFollow
<1>. QED BY <1>1, ClearingInv, PTL

(* Clearing moves tokens between users and fees, and loses none.           *)
THEOREM NothingLost == Spec => []ClearingConserves
<1>1. Inv => ClearingConserves
  BY DEF Inv, Good, Known, Total, Deposits, SumFunction, ClearingConserves
<1>. QED BY <1>1, ClearingInv, PTL

(* The price the chain derives from a batch lies between prices at which   *)
(* open orders were met.                                                   *)
THEOREM PriceIsBetween == Spec => []PriceWasPaid
<1>1. Inv => PriceWasPaid
  BY DEF Inv, PricesInv, PaidPrices, PriceWasPaid
<1>. QED BY <1>1, ClearingInv, PTL

(* What an honest matcher proves is accepted when its turn comes.          *)
THEOREM HonestIsAccepted == Spec => []HonestAccepted
<1>1. ASSUME Inv, NEW i \in DOMAIN sent, sent[i].old = root
      PROVE  verify_batch(SubSeq(sent, i, Len(sent))).ok
  <2>. DEFINE ps == SubSeq(sent, i, Len(sent))
              n == Len(ps)
              f == Runner(Known, ps, n)
  <2>1. /\ IsSequence(sent) /\ \A k \in 1..Len(sent) : Honest(sent[k])
        /\ \A k \in 1..Len(sent) : k # Len(sent) => sent[k].new = sent[k + 1].old
    BY <1>1 DEF Inv, SentInv
  <2>2. Len(sent) \in Nat /\ DOMAIN sent = 1..Len(sent) BY <2>1, LenProperties DEF IsSequence
  <2>3. Len(sent) \in i..Len(sent) /\ i \in Nat BY <2>2
  <2>4. /\ n = Len(sent) - i + 1 /\ n \in Nat \ {0}
        /\ \A k \in 1..n : i + k - 1 \in 1..Len(sent) /\ ps[k] = sent[i + k - 1]
    BY <2>1, <2>3, PartOf, SMTT(30)
  <2>5. \A k \in 1..n : Honest(ps[k]) /\ ps[k].at \subseteq PaidPrices BY <2>1, <2>2, <2>4 DEF PaidPrices
  <2>6. ps[1].old = Known.root
    <3>1. 1 \in 1..n /\ i + 1 - 1 = i BY <2>3, <2>4
    <3>. QED BY <1>1, <2>4, <3>1 DEF Known
  <2>7. \A k \in 2..n : ps[k].old = ps[k - 1].new
    <3>. SUFFICES ASSUME NEW k \in 2..n PROVE ps[k].old = ps[k - 1].new OBVIOUS
    <3>1. k \in 1..n /\ k - 1 \in 1..n BY <2>4
    <3>2. ps[k] = sent[i + k - 1] /\ ps[k - 1] = sent[i + (k - 1) - 1] /\ i + (k - 1) - 1 \in 1..Len(sent)
      BY <2>4, <3>1
    <3>3. i + (k - 1) - 1 # Len(sent) /\ (i + (k - 1) - 1) + 1 = i + k - 1
      <4>. DEFINE l == Len(sent)
                  m == n
      <4>1. l \in Nat /\ i \in Nat /\ m = l - i + 1 /\ k \in 2..m BY <2>2, <2>3, <2>4
      <4>. HIDE DEF l, m
      <4>2. i + (k - 1) - 1 # l /\ (i + (k - 1) - 1) + 1 = i + k - 1 BY ONLY <4>1
      <4>. QED BY <4>2 DEF l
    <3>. QED BY <2>1, <3>2, <3>3
  <2>8. Good(Known, Deposits, PaidPrices) /\ Known.ok BY <1>1 DEF Inv, Known
  <2>9. verify_batch(ps) = f[n] BY BatchIsRunner
  <2>10. n \in Nat BY <2>4
  <2>. HIDE DEF ps, n
  <2>11. f[n].ok BY <2>5, <2>6, <2>7, <2>8, <2>10, BatchAccepted
  <2>. QED BY <2>9, <2>11 DEF ps
<1>2. Inv => HonestAccepted BY <1>1 DEF HonestAccepted
<1>. QED BY <1>2, ClearingInv, PTL

-----------------------------------------------------------------------------
(* The amounts: funds are covered, no proof has a negative difference, and *)
(* nothing the chain records is negative.                                  *)
AmountsInv ==
  /\ Len(sent) <= MaxEvents
  /\ Covered(orders, book.account)
  /\ \A k \in 1..Len(sent) : Unsigned(sent[k]) /\ Natural(sent[k].new)
  /\ Recorded(Known)

(* At the start nothing is frozen.                                         *)
LEMMA InitAmounts == Init => AmountsInv
<1>. SUFFICES ASSUME Init PROVE AmountsInv OBVIOUS
<1>. DEFINE acc == [u \in User |-> [t \in Token |-> [available |-> Funds[u][t], frozen |-> 0]]]
<1>1. /\ orders = <<>> /\ book = Tree(<<>>, acc) /\ sent = <<>> /\ root = book
      /\ volume = [u \in User |-> 0]
  BY DEF Init
<1>2. Funds \in [User -> [Token -> Nat]] /\ MaxEvents \in Nat BY ClearingAssumption
<1>3. \A u \in User, t \in Token : acc[u][t].available \in Nat /\ acc[u][t].frozen = 0 BY <1>2
<1>. HIDE DEF acc
<1>4. book.account = acc BY <1>1 DEF Tree
<1>5. Covered(orders, book.account)
  <2>1. DOMAIN orders = {} BY <1>1
  <2>2. \A u, t : ValueOf(orders, Rests(orders), u, t) = 0 BY <2>1, SumEmpty DEF ValueOf
  <2>. QED BY <1>3, <1>4, <2>2 DEF Covered
<1>6. Len(sent) = 0 BY <1>1
<1>7. Recorded(Known)
  <2>1. Known.root = book /\ Known.volume = [u \in User |-> 0] BY <1>1 DEF Known
  <2>2. Natural(Known.root) BY <1>3, <1>4, <2>1 DEF Natural
  <2>. QED BY <2>1, <2>2 DEF Recorded
<1>. QED BY <1>2, <1>5, <1>6, <1>7 DEF AmountsInv

(* A proof the matcher adds.                                               *)
LEMMA AmountsAdd ==
  ASSUME SentInv, AmountsInv, Len(sent) < MaxEvents, Covered(orders', book'.account),
         NEW e, Unsigned(e), Natural(e.new), sent' = Append(sent, e),
         UNCHANGED <<root, reserve, fees, volume, prices>>
  PROVE  AmountsInv'
<1>1. Appended(sent, e, sent')
  <2>1. IsSequence(sent) /\ sent' = Append(sent, e) BY DEF SentInv
  <2>. QED BY ONLY <2>1, AppendOne
<1>2. /\ Len(sent) \in Nat /\ Len(sent') = Len(sent) + 1
      /\ \A k \in 1..Len(sent) : sent'[k] = sent[k]
      /\ sent'[Len(sent) + 1] = e
  BY ONLY <1>1 DEF Appended
<1>3. Len(sent') <= MaxEvents BY <1>2, ClearingAssumption
<1>4. \A k \in 1..Len(sent') : Unsigned(sent'[k]) /\ Natural(sent'[k].new)
  <2>1. \A k \in 1..Len(sent) : Unsigned(sent[k]) /\ Natural(sent[k].new) BY DEF AmountsInv
  <2>2. \A k \in 1..Len(sent') : k \in 1..Len(sent) \/ k = Len(sent) + 1 BY <1>2
  <2>. QED BY <1>2, <2>1, <2>2
<1>5. Recorded(Known)' BY DEF AmountsInv, Known, Recorded, Natural
<1>. QED BY <1>3, <1>4, <1>5 DEF AmountsInv

(* Executing an order: the taker has what it may have to pay.              *)
LEMMA ExecuteAmounts ==
  ASSUME Inv, AmountsInv, NEW c \in Cmd, Execute(c)
  PROVE  AmountsInv'
<1>. DEFINE F == Fills(orders, c)
            R == Rest(orders, c)
            n == Len(sent) + 1
            P == OrdersAfter(orders, c, F, R, n)
            acc == book.account
            new == AccountsAfter(acc, orders, c, F, R)
            e == TradeProof(orders, c, F, R, P, acc)
<1>1. /\ Len(sent) < MaxEvents /\ HasFunds(acc, c)
      /\ orders' = P /\ book' = Tree(P, new) /\ sent' = Append(sent, e)
      /\ UNCHANGED <<root, reserve, fees, volume, prices>>
  <2>1. book = Tree(orders, book.account) BY DEF Inv, OrdersInv
  <2>2. e = [cmd |-> c, makers |-> {orders[i].who : i \in Filled(F)}, pages |-> PagesOf(orders, c, F, R),
             at |-> {orders[i].price : i \in Filled(F)}, old |-> book, new |-> Tree(P, new)]
    BY <2>1 DEF TradeProof
  <2>. QED BY <2>2 DEF Execute
<1>2. Len(sent) \in Nat /\ DOMAIN sent = 1..Len(sent)
  <2>1. IsSequence(sent) BY DEF Inv, SentInv
  <2>. QED BY <2>1, LenProperties DEF IsSequence
<1>3. Trade(orders, c, F, R, n, P)
  <2>1. n \in Nat /\ n \notin DOMAIN orders BY <1>2 DEF Inv, OrdersInv
  <2>. QED BY <2>1 DEF Inv, OrdersInv, Trade
<1>4. acc \in Accounts /\ Covered(orders, acc) BY DEF Inv, OrdersInv, AmountsInv
<1>5. Tree(P, new).account = new BY DEF Tree
<1>6. e.new = Tree(P, new) BY DEF TradeProof
<1>. HIDE DEF F, R, n, P, acc, new
<1>7. Unsigned(e) BY <1>3, <1>4, TradeUnsigned
<1>. HIDE DEF e
<1>8. Covered(P, new) BY <1>1, <1>3, <1>4, TradeCovered DEF new
<1>9. Open(P) BY <1>3, AfterFields DEF Trade
<1>10. Natural(e.new) BY <1>5, <1>6, <1>8, <1>9, CoveredNatural
<1>11. Covered(orders', book'.account) BY <1>1, <1>5, <1>8
<1>. QED BY <1>1, <1>7, <1>10, <1>11, AmountsAdd DEF Inv

(* Withdrawing an order: what was frozen for it is available again.        *)
LEMMA CancelAmounts ==
  ASSUME Inv, AmountsInv, NEW i \in DOMAIN orders, CancelOrder(i)
  PROVE  AmountsInv'
<1>. DEFINE P == Restrict(orders, DOMAIN orders \ {i})
            acc == book.account
            new == Unfrozen(acc, orders[i])
            e == CancelProof(orders, i, P, acc)
<1>0. /\ book = Tree(orders, acc) /\ Open(orders) /\ Uncrossed(orders) /\ acc \in Accounts
      /\ Covered(orders, acc)
  BY DEF Inv, OrdersInv, AmountsInv
<1>1. /\ Len(sent) < MaxEvents
      /\ orders' = P /\ book' = Tree(P, new) /\ sent' = Append(sent, e)
      /\ UNCHANGED <<root, reserve, fees, volume, prices>>
  BY <1>0 DEF CancelOrder, CancelProof
<1>2. e.new = Tree(P, new) /\ Tree(P, new).account = new BY DEF CancelProof, Tree
<1>3. Open(P)
  <2>1. P = Restrict(orders, DOMAIN orders \ {i}) OBVIOUS
  <2>. HIDE DEF P
  <2>. QED BY ONLY <1>0, <2>1, OthersOpen
<1>. HIDE DEF acc
<1>4. Unsigned(e) BY <1>0, CancelUnsigned
<1>5. Covered(P, new) BY <1>0, CancelCovered
<1>. HIDE DEF P, new, e
<1>6. Natural(e.new) BY <1>2, <1>3, <1>5, CoveredNatural
<1>7. Covered(orders', book'.account) BY <1>1, <1>2, <1>5
<1>. QED BY <1>1, <1>4, <1>6, <1>7, AmountsAdd DEF Inv

(* Applying a batch.                                                       *)
LEMMA VerifyAmounts ==
  ASSUME Inv, AmountsInv, NEW i \in DOMAIN sent, NEW j \in i..Len(sent), verify(i, j)
  PROVE  AmountsInv'
<1>. DEFINE ps == SubSeq(sent, i, j)
            n == Len(ps)
            f == Runner(Known, ps, n)
            x == f[n]
<1>1. /\ IsSequence(sent) /\ \A k \in 1..Len(sent) : Honest(sent[k])
      /\ \A k \in 1..Len(sent) : Unsigned(sent[k]) /\ Natural(sent[k].new)
  BY DEF Inv, SentInv, AmountsInv
<1>2. /\ n \in Nat \ {0}
      /\ \A k \in 1..n : i + k - 1 \in 1..Len(sent) /\ ps[k] = sent[i + k - 1]
  BY <1>1, PartOf
<1>3. \A k \in 1..n : Honest(ps[k]) /\ Unsigned(ps[k]) /\ Natural(ps[k].new) BY <1>1, <1>2
<1>4. verify_batch(ps) = x BY BatchIsRunner
<1>5. /\ root' = x.root /\ volume' = x.volume
      /\ orders' = orders /\ book' = book /\ sent' = sent
  BY <1>4 DEF verify, matcher
<1>6. Recorded(x)
  <2>1. Recorded(Known) BY DEF AmountsInv
  <2>2. n \in Nat /\ n \in 0..n BY <1>2
  <2>. HIDE DEF ps, n
  <2>3. \A k \in 0..n : Recorded(f[k]) BY <1>3, <2>1, <2>2, BatchRecords
  <2>. QED BY <2>2, <2>3
<1>. HIDE DEF x, f, n, ps
<1>7. Recorded(Known)'
  <2>1. Known'.root = x.root /\ Known'.volume = x.volume BY <1>5 DEF Known
  <2>2. Recorded(Known') BY <1>6, <2>1 DEF Recorded
  <2>. QED BY <2>2
<1>. QED BY <1>5, <1>7 DEF AmountsInv

(* The amounts stay right.                                                 *)
THEOREM ClearingAmounts == Spec => [](Inv /\ AmountsInv)
<1>1. Init => Inv /\ AmountsInv BY InitInv, InitAmounts
<1>2. Inv /\ AmountsInv /\ [Next]_vars => Inv' /\ AmountsInv'
  <2>. SUFFICES ASSUME Inv, AmountsInv, [Next]_vars PROVE AmountsInv' BY StepInv
  <2>1. CASE \E c \in Cmd : Execute(c) BY <2>1, ExecuteAmounts
  <2>2. CASE \E i \in DOMAIN orders : CancelOrder(i) BY <2>2, CancelAmounts
  <2>3. CASE \E i \in DOMAIN sent : \E j \in i..Len(sent) : verify(i, j) BY <2>3, VerifyAmounts
  <2>4. CASE UNCHANGED vars
    BY <2>4 DEF vars, AmountsInv, Known, Recorded, Natural, Covered
  <2>. QED BY <2>1, <2>2, <2>3, <2>4 DEF Next
<1>. QED BY <1>1, <1>2, PTL DEF Spec

(* Every variable stays in its domain: no account, reserve, fee or volume  *)
(* is ever negative.                                                       *)
THEOREM ClearingTypeCorrect == Spec => []TypeOK
<1>1. ASSUME Inv, AmountsInv PROVE TypeOK
  <2>1. /\ DOMAIN orders \subseteq 1..Len(sent) /\ \A i \in DOMAIN orders : orders[i] \in Order
    BY <1>1 DEF Inv, OrdersInv, Open
  <2>2. Len(sent) \in Nat /\ Len(sent) <= MaxEvents
    <3>1. IsSequence(sent) BY <1>1 DEF Inv, SentInv
    <3>. QED BY <1>1, <3>1, LenProperties DEF IsSequence, AmountsInv
  <2>3. DOMAIN orders \subseteq 1..MaxEvents BY <2>1, <2>2, ClearingAssumption
  <2>4. Natural(book)
    <3>1. Open(orders) /\ Covered(orders, book.account) BY <1>1 DEF Inv, OrdersInv, AmountsInv
    <3>. QED BY <3>1, CoveredNatural
  <2>5. Natural(root) /\ volume \in [User -> Nat] BY <1>1 DEF AmountsInv, Recorded, Known
  <2>6. /\ reserve \in [User -> [Token -> Int]] /\ Matches(reserve, root) /\ fees \in [Token -> Nat]
    BY <1>1 DEF Inv, Good, Known
  <2>7. reserve \in [User -> [Token -> Nat]]
    <3>1. \A u \in User, t \in Token : reserve[u][t] \in Nat
      BY <2>5, <2>6 DEF Natural, Matches, AccountSum
    <3>. QED BY <2>6, <3>1
  <2>8. prices \in [{Base} -> Nat] BY <1>1 DEF Inv, PricesInv
  <2>9. \A y \in {book, root} : \A u \in User, t \in Token :
          y.account[u][t].available \in Nat /\ y.account[u][t].frozen \in Nat
    BY <2>4, <2>5 DEF Natural
  <2>. QED BY <2>1, <2>2, <2>3, <2>5, <2>6, <2>7, <2>8, <2>9 DEF TypeOK
<1>2. Inv /\ AmountsInv => TypeOK BY <1>1
<1>. QED BY <1>2, ClearingAmounts, PTL

(* The frozen leaf of a user is the value of what is left of its orders.   *)
FrozenIsOpen ==
  \A u \in User, t \in Token :
    book.account[u][t].frozen
      = SumFunction([i \in DOMAIN orders |->
          IF orders[i].who = u /\ PayToken(orders[i].side) = t
          THEN Paid(orders[i].side, orders[i].rest, orders[i].price) ELSE 0])

(* What the matcher has frozen of a user, in the leaves that verify_cancel *)
(* and the trades are checked on, is what the user's open orders may still *)
(* be asked for, after any fills, rests and withdrawals.                   *)
THEOREM FrozenCoversOrders == Spec => []FrozenIsOpen
<1>1. ASSUME AmountsInv, NEW u \in User, NEW t \in Token
      PROVE  book.account[u][t].frozen
               = SumFunction([i \in DOMAIN orders |->
                   IF orders[i].who = u /\ PayToken(orders[i].side) = t
                   THEN Paid(orders[i].side, orders[i].rest, orders[i].price) ELSE 0])
  <2>1. book.account[u][t].frozen = ValueOf(orders, Rests(orders), u, t) BY <1>1 DEF AmountsInv, Covered
  <2>2. Value(orders, Rests(orders), u, t)
          = [i \in DOMAIN orders |-> IF orders[i].who = u /\ PayToken(orders[i].side) = t
               THEN Paid(orders[i].side, orders[i].rest, orders[i].price) ELSE 0]
    BY DEF Value, Rests
  <2>. QED BY <2>1, <2>2 DEF ValueOf, SumFunction
<1>2. AmountsInv => FrozenIsOpen BY <1>1 DEF FrozenIsOpen
<1>. QED BY <1>2, ClearingAmounts, PTL

(* The unsigned subtractions of the code never wrap on an honest proof.    *)
THEOREM DifferencesUnsigned == Spec => [](\A k \in DOMAIN sent : Unsigned(sent[k]))
<1>1. Inv /\ AmountsInv => \A k \in DOMAIN sent : Unsigned(sent[k])
  <2>. SUFFICES ASSUME Inv, AmountsInv PROVE \A k \in DOMAIN sent : Unsigned(sent[k]) OBVIOUS
  <2>1. IsSequence(sent) BY DEF Inv, SentInv
  <2>2. DOMAIN sent = 1..Len(sent) BY <2>1, LenProperties DEF IsSequence
  <2>. QED BY <2>2 DEF AmountsInv
<1>. QED BY <1>1, ClearingAmounts, PTL
=============================================================================
