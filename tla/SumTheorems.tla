---------------------------- MODULE SumTheorems ----------------------------
(***************************************************************************)
(* What the proofs need of SumFunctionOnSet (community module Functions),  *)
(* the operator every total of this project is written with.  It is the    *)
(* value at indices of a recursive function on the subsets of indices, so  *)
(* the lemmas come in two layers: the recursive function exists and obeys  *)
(* its equation, then the laws of finite sums that the rest cites.  The    *)
(* arithmetic of rounded shares, which Staking and Reward have in common,  *)
(* comes last.                                                             *)
(*                                                                         *)
(* Induction over the size of a set is the argument from a least           *)
(* counterexample (LeastNat): the induction theorems of the library take   *)
(* a predicate as a parameter and cannot be instantiated by the provers.   *)
(***************************************************************************)
EXTENDS Integers, FiniteSets, Functions, FiniteSetTheorems,
        WellFoundedInduction, TLAPS

Pick(s) == CHOOSE x \in s : TRUE

(* The recursion equation behind SumFunctionOnSet.                         *)
SumStep(f, g, s) == IF s = {} THEN 0 ELSE f[Pick(s)] + g[s \ {Pick(s)}]
IsSummer(f, S, g) == g = [s \in SUBSET S |-> SumStep(f, g, s)]
Summer(f, S) == CHOOSE g : IsSummer(f, S, g)

Summable(f, S) == IsFiniteSet(S) /\ \A x \in S : f[x] \in Int

(* A set of natural numbers that is not empty has a least element.         *)
LEMMA LeastNat ==
  ASSUME NEW T, T \subseteq Nat, T # {}
  PROVE  \E n \in T : \A m \in T : n <= m
<1>1. PICK n \in T : \A m \in T : ~ (<<m, n>> \in OpToRel(<, Nat))
  BY NatLessThanWellFounded, WFMin
<1>2. ASSUME NEW m \in T PROVE n <= m
  <2>1. <<m, n>> \notin {ss \in Nat \X Nat : ss[1] < ss[2]}
    BY <1>1 DEF OpToRel
  <2>. QED BY <2>1
<1>. QED BY <1>2

(* SumFunctionOnSet is the recursive function taken at the whole set.      *)
LEMMA SumIsSummer ==
  ASSUME NEW f, NEW S
  PROVE  SumFunctionOnSet(f, S) = Summer(f, S)[S]
BY Zenon DEF SumFunctionOnSet, FoldFunctionOnSet, MapThenFoldSet, Summer, IsSummer, SumStep, Pick

(* An element of a set that is not empty is picked, and what is left is    *)
(* smaller.                                                                *)
LEMMA PickSmaller ==
  ASSUME NEW S, IsFiniteSet(S), NEW s \in SUBSET S
  PROVE  /\ IsFiniteSet(s) /\ Cardinality(s) \in Nat
         /\ Cardinality(s) = 0 <=> s = {}
         /\ s # {} => Pick(s) \in s
         /\ \A x \in s : /\ s \ {x} \in SUBSET S
                         /\ Cardinality(s \ {x}) = Cardinality(s) - 1
<1>1. IsFiniteSet(s) BY FS_Subset
<1>2. Cardinality(s) \in Nat BY <1>1, FS_CardinalityType
<1>3. Cardinality(s) = 0 <=> s = {} BY <1>1, FS_EmptySet
<1>4. s # {} => Pick(s) \in s BY DEF Pick
<1>5. \A x \in s : Cardinality(s \ {x}) = Cardinality(s) - 1 BY <1>1, FS_RemoveElement
<1>. QED BY <1>1, <1>2, <1>3, <1>4, <1>5

(* The recursive function exists, by induction on the size of the subsets  *)
(* it is defined on.                                                       *)
LEMMA SummerExists ==
  ASSUME NEW f, NEW S, Summable(f, S)
  PROVE  \E g : IsSummer(f, S, g)
<1>. DEFINE Sub(n) == {s \in SUBSET S : Cardinality(s) <= n}
            Partial(n, g) == \A s \in Sub(n) : g[s] = SumStep(f, g, s)
            Bad == {n \in Nat : ~ \E g : Partial(n, g)}
<1>. IsFiniteSet(S) BY DEF Summable
<1>1. \A s \in SUBSET S : Cardinality(s) \in Nat /\ (Cardinality(s) = 0 <=> s = {})
  BY PickSmaller
<1>2. \A s \in SUBSET S : s # {} => /\ s \ {Pick(s)} \in SUBSET S
                                    /\ Cardinality(s \ {Pick(s)}) = Cardinality(s) - 1
  BY PickSmaller
<1>3. Bad = {}
  <2>. SUFFICES ASSUME Bad # {} PROVE FALSE OBVIOUS
  <2>1. PICK n \in Bad : \A m \in Bad : n <= m BY LeastNat
  <2>2. n # 0
    <3>1. Partial(0, [s \in Sub(0) |-> 0])
      <4>. SUFFICES ASSUME NEW s \in Sub(0) PROVE s = {} BY DEF SumStep
      <4>. QED BY <1>1
    <3>. QED BY <3>1
  <2>3. n - 1 \in Nat /\ n - 1 \notin Bad BY <2>1, <2>2
  <2>4. PICK g : Partial(n - 1, g) BY <2>3
  <2>. DEFINE h == [s \in Sub(n) |-> SumStep(f, g, s)]
  <2>5. ASSUME NEW s \in Sub(n) PROVE h[s] = SumStep(f, h, s)
    <3>1. CASE s = {} BY <3>1 DEF SumStep
    <3>2. CASE s # {}
      <4>. DEFINE r == s \ {Pick(s)}
      <4>1. r \in Sub(n - 1) /\ r \in Sub(n) BY <3>2, <1>1, <1>2, <2>1
      <4>2. g[r] = SumStep(f, g, r) BY <4>1, <2>4
      <4>3. h[r] = g[r] BY <4>1, <4>2
      <4>4. h[s] = f[Pick(s)] + g[r] BY <3>2 DEF SumStep
      <4>. QED BY <3>2, <4>3, <4>4 DEF SumStep
    <3>. QED BY <3>1, <3>2
  <2>6. Partial(n, h) BY <2>5
  <2>. QED BY <2>1, <2>6
<1>4. PICK g : Partial(Cardinality(S), g)
  <2>1. Cardinality(S) \in Nat BY FS_CardinalityType
  <2>. QED BY <1>3, <2>1
<1>. DEFINE G == [s \in SUBSET S |-> g[s]]
<1>5. ASSUME NEW s \in SUBSET S PROVE G[s] = SumStep(f, G, s)
  <2>1. s \in Sub(Cardinality(S)) BY FS_Subset
  <2>2. g[s] = SumStep(f, g, s) BY <2>1, <1>4
  <2>3. SumStep(f, G, s) = SumStep(f, g, s) BY <1>2 DEF SumStep
  <2>. QED BY <2>2, <2>3
<1>6. IsSummer(f, S, G) BY <1>5 DEF IsSummer
<1>. QED BY <1>6

(* The equation the recursive function obeys.                              *)
LEMMA SummerEquation ==
  ASSUME NEW f, NEW S, Summable(f, S), NEW s \in SUBSET S
  PROVE  Summer(f, S)[s] = SumStep(f, Summer(f, S), s)
<1>1. IsSummer(f, S, Summer(f, S)) BY SummerExists DEF Summer
<1>. QED BY <1>1 DEF IsSummer

(* Every partial total is an integer.                                      *)
LEMMA SummerType ==
  ASSUME NEW f, NEW S, Summable(f, S), NEW s \in SUBSET S
  PROVE  Summer(f, S)[s] \in Int
<1>. DEFINE G == Summer(f, S)
            Bad == {n \in Nat : \E r \in SUBSET S : Cardinality(r) = n /\ G[r] \notin Int}
<1>. HIDE DEF G
<1>. IsFiniteSet(S) BY DEF Summable
<1>1. Bad = {}
  <2>. SUFFICES ASSUME Bad # {} PROVE FALSE OBVIOUS
  <2>1. PICK n \in Bad : \A m \in Bad : n <= m BY LeastNat
  <2>2. PICK r \in SUBSET S : Cardinality(r) = n /\ G[r] \notin Int BY <2>1
  <2>3. G[r] = SumStep(f, G, r) BY SummerEquation DEF G
  <2>4. r # {} BY <2>2, <2>3 DEF SumStep
  <2>5. Pick(r) \in r /\ r \ {Pick(r)} \in SUBSET S /\ Cardinality(r \ {Pick(r)}) = n - 1 /\ n - 1 \in Nat
    BY <2>2, <2>4, PickSmaller
  <2>6. G[r \ {Pick(r)}] \in Int BY <2>1, <2>5
  <2>7. f[Pick(r)] \in Int BY <2>5 DEF Summable
  <2>. QED BY <2>2, <2>3, <2>4, <2>6, <2>7 DEF SumStep
<1>2. Cardinality(s) \in Nat BY PickSmaller
<1>3. G[s] \in Int BY <1>1, <1>2
<1>. QED BY <1>3 DEF G

(* Two functions that agree on a set have the same total over it,          *)
(* whichever larger sets the recursions were taken on.                     *)
LEMMA SummerAgree ==
  ASSUME NEW f, NEW S, Summable(f, S), NEW g, NEW T, Summable(g, T),
         NEW s \in (SUBSET S) \cap (SUBSET T), \A x \in s : f[x] = g[x]
  PROVE  Summer(f, S)[s] = Summer(g, T)[s]
<1>. DEFINE F == Summer(f, S)
            G == Summer(g, T)
            Bad == {n \in Nat : \E r \in SUBSET s : Cardinality(r) = n /\ F[r] # G[r]}
<1>. HIDE DEF F, G
<1>. IsFiniteSet(S) /\ IsFiniteSet(s) BY FS_Subset DEF Summable
<1>1. Bad = {}
  <2>. SUFFICES ASSUME Bad # {} PROVE FALSE OBVIOUS
  <2>1. PICK n \in Bad : \A m \in Bad : n <= m BY LeastNat
  <2>2. PICK r \in SUBSET s : Cardinality(r) = n /\ F[r] # G[r] BY <2>1
  <2>3. F[r] = SumStep(f, F, r) /\ G[r] = SumStep(g, G, r) BY SummerEquation DEF F, G
  <2>4. r # {} BY <2>2, <2>3 DEF SumStep
  <2>5. Pick(r) \in r /\ r \ {Pick(r)} \in SUBSET s /\ Cardinality(r \ {Pick(r)}) = n - 1 /\ n - 1 \in Nat
    BY <2>2, <2>4, PickSmaller
  <2>6. F[r \ {Pick(r)}] = G[r \ {Pick(r)}] BY <2>1, <2>5
  <2>7. f[Pick(r)] = g[Pick(r)] BY <2>5
  <2>. QED BY <2>2, <2>3, <2>4, <2>6, <2>7 DEF SumStep
<1>2. Cardinality(s) \in Nat BY PickSmaller
<1>3. F[s] = G[s] BY <1>1, <1>2
<1>. QED BY <1>3 DEF F, G

(* Any element may be taken out of the total, not only the picked one.     *)
LEMMA SummerRemove ==
  ASSUME NEW f, NEW S, Summable(f, S), NEW s \in SUBSET S, NEW x \in s
  PROVE  Summer(f, S)[s] = f[x] + Summer(f, S)[s \ {x}]
<1>. DEFINE G == Summer(f, S)
            Bad == {n \in Nat : \E r \in SUBSET S : \E z \in r :
                      Cardinality(r) = n /\ G[r] # f[z] + G[r \ {z}]}
<1>. HIDE DEF G
<1>. IsFiniteSet(S) BY DEF Summable
<1>1. Bad = {}
  <2>. SUFFICES ASSUME Bad # {} PROVE FALSE OBVIOUS
  <2>1. PICK n \in Bad : \A m \in Bad : n <= m BY LeastNat
  <2>a. PICK r \in SUBSET S : \E z \in r : Cardinality(r) = n /\ G[r] # f[z] + G[r \ {z}] BY <2>1
  <2>2. PICK z \in r : Cardinality(r) = n /\ G[r] # f[z] + G[r \ {z}] BY <2>a
  <2>. DEFINE y == Pick(r)
  <2>3. y \in r /\ r \ {y} \in SUBSET S /\ Cardinality(r \ {y}) = n - 1 /\ n - 1 \in Nat
    BY <2>2, PickSmaller
  <2>4. r \ {z} \in SUBSET S /\ Cardinality(r \ {z}) = n - 1 BY <2>2, PickSmaller
  <2>. HIDE DEF y
  <2>5. G[r] = f[y] + G[r \ {y}] BY SummerEquation DEF G, SumStep, y
  <2>6. z # y BY <2>2, <2>5
  <2>7. z \in r \ {y} /\ y \in r \ {z} BY <2>3, <2>6
  <2>8. n - 1 \notin Bad
    <3>1. n \in Nat OBVIOUS
    <3>. HIDE DEF Bad
    <3>. QED BY <2>1, <2>3, <3>1
  <2>9. \A q \in SUBSET S : \A w \in q : Cardinality(q) = n - 1 => G[q] = f[w] + G[q \ {w}]
    BY <2>3, <2>8
  <2>. DEFINE rest == (r \ {z}) \ {y}
  <2>10. (r \ {y}) \ {z} = rest /\ rest \in SUBSET S OBVIOUS
  <2>. HIDE DEF Bad, rest
  <2>11. G[r \ {y}] = f[z] + G[rest] BY <2>3, <2>7, <2>9, <2>10
  <2>12. G[r \ {z}] = f[y] + G[rest] BY <2>4, <2>7, <2>9 DEF rest
  <2>13. G[rest] \in Int BY <2>10, SummerType DEF G
  <2>14. f[y] \in Int /\ f[z] \in Int BY <2>3 DEF Summable
  <2>15. G[r] = f[z] + G[r \ {z}] BY <2>5, <2>11, <2>12, <2>13, <2>14
  <2>. QED BY <2>2, <2>15
<1>2. Cardinality(s) \in Nat BY PickSmaller
<1>3. G[s] = f[x] + G[s \ {x}] BY <1>1, <1>2
<1>. QED BY <1>3 DEF G

-----------------------------------------------------------------------------
(* The laws of finite sums, over any finite set of indices.                *)

(* Nothing adds up to zero.                                                *)
LEMMA SumEmpty ==
  ASSUME NEW f
  PROVE  SumFunctionOnSet(f, {}) = 0
<1>1. IsFiniteSet({}) BY FS_EmptySet
<1>2. Summable(f, {}) BY <1>1 DEF Summable
<1>3. {} \in SUBSET {} OBVIOUS
<1>4. Summer(f, {})[{}] = SumStep(f, Summer(f, {}), {}) BY <1>2, <1>3, SummerEquation
<1>. QED BY <1>4, SumIsSummer DEF SumStep

(* A finite sum of integers is an integer.                                 *)
LEMMA SumInt ==
  ASSUME NEW f, NEW S, IsFiniteSet(S), \A x \in S : f[x] \in Int
  PROVE  SumFunctionOnSet(f, S) \in Int
BY SumIsSummer, SummerType DEF Summable

(* The total over a set is one element plus the total over the others.     *)
LEMMA SumRemove ==
  ASSUME NEW f, NEW S, IsFiniteSet(S), \A x \in S : f[x] \in Int, NEW x \in S
  PROVE  SumFunctionOnSet(f, S) = f[x] + SumFunctionOnSet(f, S \ {x})
<1>. DEFINE T == S \ {x}
<1>1. Summable(f, S) /\ Summable(f, T) BY FS_Subset DEF Summable
<1>2. Summer(f, S)[S] = f[x] + Summer(f, S)[T] BY <1>1, SummerRemove
<1>3. T \in (SUBSET S) \cap (SUBSET T) OBVIOUS
<1>. HIDE DEF T
<1>4. Summer(f, S)[T] = Summer(f, T)[T] BY <1>1, <1>3, SummerAgree
<1>5. SumFunctionOnSet(f, S) = f[x] + SumFunctionOnSet(f, T) BY <1>2, <1>4, SumIsSummer
<1>. QED BY <1>5 DEF T

(* Functions that agree on a set have the same total over it.              *)
LEMMA SumAgree ==
  ASSUME NEW f, NEW g, NEW S, IsFiniteSet(S), \A x \in S : f[x] \in Int,
         \A x \in S : g[x] = f[x]
  PROVE  SumFunctionOnSet(g, S) = SumFunctionOnSet(f, S)
<1>1. Summable(f, S) /\ Summable(g, S) BY DEF Summable
<1>2. S \in (SUBSET S) \cap (SUBSET S) OBVIOUS
<1>3. Summer(f, S)[S] = Summer(g, S)[S] BY <1>1, <1>2, SummerAgree
<1>. QED BY <1>3, SumIsSummer

(* Changing one element changes the total by the difference.               *)
LEMMA SumUpdate ==
  ASSUME NEW f, NEW g, NEW S, IsFiniteSet(S), NEW x \in S,
         \A y \in S : f[y] \in Int, g[x] \in Int,
         \A y \in S \ {x} : g[y] = f[y]
  PROVE  SumFunctionOnSet(g, S) = SumFunctionOnSet(f, S) + g[x] - f[x]
<1>. DEFINE T == S \ {x}
<1>1. IsFiniteSet(T) BY FS_Subset
<1>2. \A y \in S : g[y] \in Int OBVIOUS
<1>3. SumFunctionOnSet(f, S) = f[x] + SumFunctionOnSet(f, T) BY SumRemove
<1>4. SumFunctionOnSet(g, S) = g[x] + SumFunctionOnSet(g, T) BY <1>2, SumRemove
<1>. HIDE DEF T
<1>5. SumFunctionOnSet(g, T) = SumFunctionOnSet(f, T) BY <1>1, SumAgree DEF T
<1>6. SumFunctionOnSet(f, T) \in Int BY <1>1, SumInt DEF T
<1>. QED BY <1>3, <1>4, <1>5, <1>6

(* The total of a pointwise sum is the sum of the totals.                  *)
LEMMA SumAdd ==
  ASSUME NEW f, NEW g, NEW h, NEW S, IsFiniteSet(S),
         \A x \in S : f[x] \in Int, \A x \in S : g[x] \in Int,
         \A x \in S : h[x] = f[x] + g[x]
  PROVE  SumFunctionOnSet(h, S) = SumFunctionOnSet(f, S) + SumFunctionOnSet(g, S)
<1>. DEFINE Holds(r) == SumFunctionOnSet(h, r) = SumFunctionOnSet(f, r) + SumFunctionOnSet(g, r)
            Bad == {n \in Nat : \E r \in SUBSET S : Cardinality(r) = n /\ ~ Holds(r)}
<1>1. Bad = {}
  <2>. SUFFICES ASSUME Bad # {} PROVE FALSE OBVIOUS
  <2>1. PICK n \in Bad : \A m \in Bad : n <= m BY LeastNat
  <2>2. PICK r \in SUBSET S : Cardinality(r) = n /\ ~ Holds(r) BY <2>1
  <2>3. IsFiniteSet(r) BY FS_Subset
  <2>4. CASE r = {}
    <3>1. SumFunctionOnSet(h, {}) = 0 /\ SumFunctionOnSet(f, {}) = 0 /\ SumFunctionOnSet(g, {}) = 0
      BY SumEmpty
    <3>. QED BY <2>2, <2>4, <3>1
  <2>5. CASE r # {}
    <3>1. PICK x \in r : TRUE BY <2>5
    <3>. DEFINE q == r \ {x}
    <3>2. q \in SUBSET S /\ Cardinality(q) = n - 1 /\ n - 1 \in Nat BY <2>2, <2>5, PickSmaller
    <3>3. IsFiniteSet(q) BY <3>2, FS_Subset
    <3>4. Holds(q) BY <2>1, <3>2
    <3>5. SumFunctionOnSet(f, r) = f[x] + SumFunctionOnSet(f, q) BY <2>3, SumRemove
    <3>6. SumFunctionOnSet(g, r) = g[x] + SumFunctionOnSet(g, q) BY <2>3, SumRemove
    <3>7. \A y \in r : h[y] \in Int OBVIOUS
    <3>8. SumFunctionOnSet(h, r) = h[x] + SumFunctionOnSet(h, q) BY <2>3, <3>7, SumRemove
    <3>9. f[x] \in Int /\ g[x] \in Int /\ h[x] = f[x] + g[x] OBVIOUS
    <3>. HIDE DEF q
    <3>10. SumFunctionOnSet(f, q) \in Int /\ SumFunctionOnSet(g, q) \in Int BY <3>2, <3>3, SumInt
    <3>11. Holds(r) BY <3>4, <3>5, <3>6, <3>8, <3>9, <3>10
    <3>. QED BY <2>2, <3>11
  <2>. QED BY <2>4, <2>5
<1>2. S \in SUBSET S /\ Cardinality(S) \in Nat BY FS_CardinalityType
<1>. QED BY <1>1, <1>2

(* A total of zeros is zero.                                               *)
LEMMA SumZero ==
  ASSUME NEW f, NEW S, IsFiniteSet(S), \A x \in S : f[x] = 0
  PROVE  SumFunctionOnSet(f, S) = 0
<1>1. \A x \in S : f[x] \in Int /\ f[x] = f[x] + f[x] OBVIOUS
<1>2. SumFunctionOnSet(f, S) = SumFunctionOnSet(f, S) + SumFunctionOnSet(f, S) BY <1>1, SumAdd
<1>3. SumFunctionOnSet(f, S) \in Int BY <1>1, SumInt
<1>4. ASSUME NEW a \in Int, a = a + a PROVE a = 0 BY <1>4
<1>. QED BY <1>2, <1>3, <1>4

(* The total of a multiple is the multiple of the total.                   *)
LEMMA SumScale ==
  ASSUME NEW f, NEW g, NEW k \in Int, NEW S, IsFiniteSet(S),
         \A x \in S : f[x] \in Int, \A x \in S : g[x] = k * f[x]
  PROVE  SumFunctionOnSet(g, S) = k * SumFunctionOnSet(f, S)
<1>. DEFINE Holds(r) == SumFunctionOnSet(g, r) = k * SumFunctionOnSet(f, r)
            Bad == {n \in Nat : \E r \in SUBSET S : Cardinality(r) = n /\ ~ Holds(r)}
<1>1. Bad = {}
  <2>. SUFFICES ASSUME Bad # {} PROVE FALSE OBVIOUS
  <2>1. PICK n \in Bad : \A m \in Bad : n <= m BY LeastNat
  <2>2. PICK r \in SUBSET S : Cardinality(r) = n /\ ~ Holds(r) BY <2>1
  <2>3. IsFiniteSet(r) BY FS_Subset
  <2>4. CASE r = {}
    <3>1. SumFunctionOnSet(f, {}) = 0 /\ SumFunctionOnSet(g, {}) = 0 BY SumEmpty
    <3>. QED BY <2>2, <2>4, <3>1
  <2>5. CASE r # {}
    <3>1. PICK x \in r : TRUE BY <2>5
    <3>. DEFINE q == r \ {x}
    <3>2. q \in SUBSET S /\ Cardinality(q) = n - 1 /\ n - 1 \in Nat BY <2>2, <2>5, PickSmaller
    <3>3. IsFiniteSet(q) BY <3>2, FS_Subset
    <3>4. Holds(q) BY <2>1, <3>2
    <3>5. SumFunctionOnSet(f, r) = f[x] + SumFunctionOnSet(f, q) BY <2>3, SumRemove
    <3>6. \A y \in r : g[y] \in Int OBVIOUS
    <3>7. SumFunctionOnSet(g, r) = g[x] + SumFunctionOnSet(g, q) BY <2>3, <3>6, SumRemove
    <3>8. f[x] \in Int /\ g[x] = k * f[x] OBVIOUS
    <3>. HIDE DEF q
    <3>9. SumFunctionOnSet(f, q) \in Int BY <3>2, <3>3, SumInt
    <3>10. \A b, c \in Int : k * (b + c) = k * b + k * c OBVIOUS
    <3>11. Holds(r) BY <3>4, <3>5, <3>7, <3>8, <3>9, <3>10
    <3>. QED BY <2>2, <3>11
  <2>. QED BY <2>4, <2>5
<1>2. S \in SUBSET S /\ Cardinality(S) \in Nat BY FS_CardinalityType
<1>. QED BY <1>1, <1>2

(* A total is at most another when each of its elements is.                *)
LEMMA SumMono ==
  ASSUME NEW f, NEW g, NEW S, IsFiniteSet(S),
         \A x \in S : f[x] \in Int, \A x \in S : g[x] \in Int,
         \A x \in S : f[x] <= g[x]
  PROVE  SumFunctionOnSet(f, S) <= SumFunctionOnSet(g, S)
<1>. DEFINE Holds(r) == SumFunctionOnSet(f, r) <= SumFunctionOnSet(g, r)
            Bad == {n \in Nat : \E r \in SUBSET S : Cardinality(r) = n /\ ~ Holds(r)}
<1>1. Bad = {}
  <2>. SUFFICES ASSUME Bad # {} PROVE FALSE OBVIOUS
  <2>1. PICK n \in Bad : \A m \in Bad : n <= m BY LeastNat
  <2>2. PICK r \in SUBSET S : Cardinality(r) = n /\ ~ Holds(r) BY <2>1
  <2>3. IsFiniteSet(r) BY FS_Subset
  <2>4. CASE r = {}
    <3>1. SumFunctionOnSet(f, {}) = 0 /\ SumFunctionOnSet(g, {}) = 0 BY SumEmpty
    <3>. QED BY <2>2, <2>4, <3>1
  <2>5. CASE r # {}
    <3>1. PICK x \in r : TRUE BY <2>5
    <3>. DEFINE q == r \ {x}
    <3>2. q \in SUBSET S /\ Cardinality(q) = n - 1 /\ n - 1 \in Nat BY <2>2, <2>5, PickSmaller
    <3>3. IsFiniteSet(q) BY <3>2, FS_Subset
    <3>4. Holds(q) BY <2>1, <3>2
    <3>5. SumFunctionOnSet(f, r) = f[x] + SumFunctionOnSet(f, q) BY <2>3, SumRemove
    <3>6. SumFunctionOnSet(g, r) = g[x] + SumFunctionOnSet(g, q) BY <2>3, SumRemove
    <3>7. f[x] \in Int /\ g[x] \in Int /\ f[x] <= g[x] OBVIOUS
    <3>. HIDE DEF q
    <3>8. SumFunctionOnSet(f, q) \in Int /\ SumFunctionOnSet(g, q) \in Int BY <3>2, <3>3, SumInt
    <3>9. Holds(r) BY <3>4, <3>5, <3>6, <3>7, <3>8
    <3>. QED BY <2>2, <3>9
  <2>. QED BY <2>4, <2>5
<1>2. S \in SUBSET S /\ Cardinality(S) \in Nat BY FS_CardinalityType
<1>. QED BY <1>1, <1>2

(* A total of natural numbers is a natural number.                         *)
LEMMA SumNat ==
  ASSUME NEW f, NEW S, IsFiniteSet(S), \A x \in S : f[x] \in Nat
  PROVE  SumFunctionOnSet(f, S) \in Nat
<1>. DEFINE zero == [x \in S |-> 0]
<1>1. \A x \in S : zero[x] = 0 /\ zero[x] \in Int /\ f[x] \in Int /\ zero[x] <= f[x] OBVIOUS
<1>. HIDE DEF zero
<1>2. SumFunctionOnSet(zero, S) = 0 BY <1>1, SumZero
<1>3. SumFunctionOnSet(zero, S) <= SumFunctionOnSet(f, S) BY <1>1, SumMono
<1>4. SumFunctionOnSet(f, S) \in Int BY <1>1, SumInt
<1>. QED BY <1>2, <1>3, <1>4

(* One element of a total of natural numbers is at most the total.         *)
LEMMA SumElement ==
  ASSUME NEW f, NEW S, IsFiniteSet(S), \A x \in S : f[x] \in Nat, NEW x \in S
  PROVE  f[x] <= SumFunctionOnSet(f, S)
<1>1. SumFunctionOnSet(f, S) = f[x] + SumFunctionOnSet(f, S \ {x}) BY SumRemove
<1>2. SumFunctionOnSet(f, S \ {x}) \in Nat BY FS_Subset, SumNat
<1>. QED BY <1>1, <1>2

(* Elements that are zero may be left out of a total.                      *)
LEMMA SumExtend ==
  ASSUME NEW f, NEW S, IsFiniteSet(S), \A x \in S : f[x] \in Int,
         NEW T \in SUBSET S, \A x \in S \ T : f[x] = 0
  PROVE  SumFunctionOnSet(f, S) = SumFunctionOnSet(f, T)
<1>. DEFINE Holds(r) == SumFunctionOnSet(f, T \cup r) = SumFunctionOnSet(f, T)
            Bad == {n \in Nat : \E r \in SUBSET (S \ T) : Cardinality(r) = n /\ ~ Holds(r)}
<1>0. IsFiniteSet(S \ T) BY FS_Subset
<1>1. Bad = {}
  <2>. SUFFICES ASSUME Bad # {} PROVE FALSE OBVIOUS
  <2>1. PICK n \in Bad : \A m \in Bad : n <= m BY LeastNat
  <2>2. PICK r \in SUBSET (S \ T) : Cardinality(r) = n /\ ~ Holds(r) BY <2>1
  <2>3. CASE r = {}
    <3>1. T \cup r = T BY <2>3
    <3>. QED BY <2>2, <3>1
  <2>4. CASE r # {}
    <3>1. PICK x \in r : TRUE BY <2>4
    <3>. DEFINE q == r \ {x}  U == T \cup r
    <3>2. q \in SUBSET (S \ T) /\ Cardinality(q) = n - 1 /\ n - 1 \in Nat
      BY <1>0, <2>2, <2>4, PickSmaller
    <3>3. Holds(q)
      <4>. HIDE DEF q, Holds
      <4>1. n - 1 \notin Bad BY <2>1, <3>2
      <4>. QED BY <3>2, <4>1
    <3>4. x \in U /\ U \ {x} = T \cup q /\ U \in SUBSET S OBVIOUS
    <3>5. IsFiniteSet(U) BY <3>4, FS_Subset
    <3>6. SumFunctionOnSet(f, U) = f[x] + SumFunctionOnSet(f, U \ {x}) BY <3>4, <3>5, SumRemove
    <3>7. f[x] = 0 OBVIOUS
    <3>8. SumFunctionOnSet(f, T) \in Int BY FS_Subset, SumInt
    <3>9. Holds(r)
      <4>1. SumFunctionOnSet(f, T \cup q) = SumFunctionOnSet(f, T) BY <3>3
      <4>. HIDE DEF q
      <4>2. SumFunctionOnSet(f, U) = 0 + SumFunctionOnSet(f, T) BY <3>4, <3>6, <3>7, <4>1
      <4>. QED BY <3>8, <4>2
    <3>. QED BY <2>2, <3>9
  <2>. QED BY <2>3, <2>4
<1>2. S \ T \in SUBSET (S \ T) /\ Cardinality(S \ T) \in Nat BY <1>0, FS_CardinalityType
<1>3. T \cup (S \ T) = S OBVIOUS
<1>4. Holds(S \ T) BY <1>1, <1>2
<1>. QED BY <1>3, <1>4

(* A part of a total of natural numbers is at most the total.              *)
LEMMA SumSubset ==
  ASSUME NEW f, NEW S, IsFiniteSet(S), \A x \in S : f[x] \in Nat, NEW T \in SUBSET S
  PROVE  SumFunctionOnSet(f, T) <= SumFunctionOnSet(f, S)
<1>. DEFINE g == [x \in S |-> IF x \in T THEN f[x] ELSE 0]
<1>1. \A x \in S : g[x] \in Int /\ g[x] <= f[x] /\ f[x] \in Int OBVIOUS
<1>2. (\A x \in S \ T : g[x] = 0) /\ (\A x \in T : g[x] = f[x] /\ f[x] \in Int) OBVIOUS
<1>. HIDE DEF g
<1>3. SumFunctionOnSet(g, S) <= SumFunctionOnSet(f, S) BY <1>1, SumMono
<1>4. SumFunctionOnSet(g, S) = SumFunctionOnSet(g, T) BY <1>1, <1>2, SumExtend
<1>5. SumFunctionOnSet(g, T) = SumFunctionOnSet(f, T)
  <2>1. IsFiniteSet(T) BY FS_Subset
  <2>. QED BY <1>2, <2>1, SumAgree
<1>. QED BY <1>3, <1>4, <1>5

(* The only element that is not zero is the total.                         *)
LEMMA SumOne ==
  ASSUME NEW f, NEW S, IsFiniteSet(S), NEW x \in S, f[x] \in Int,
         \A y \in S \ {x} : f[y] = 0
  PROVE  SumFunctionOnSet(f, S) = f[x]
<1>1. \A y \in S : f[y] \in Int OBVIOUS
<1>2. SumFunctionOnSet(f, S) = f[x] + SumFunctionOnSet(f, S \ {x}) BY <1>1, SumRemove
<1>3. IsFiniteSet(S \ {x}) BY FS_Subset
<1>4. SumFunctionOnSet(f, S \ {x}) = 0 BY <1>3, SumZero
<1>. QED BY <1>2, <1>4

(* Amounts sorted by whom they belong to add up to all amounts, if nothing *)
(* belongs to anyone else.                                                 *)
LEMMA SumGroup ==
  ASSUME NEW S, IsFiniteSet(S), NEW M, IsFiniteSet(M), NEW w, NEW x,
         \A i \in S : x[i] \in Int, \A i \in S : w[i] \notin M => x[i] = 0
  PROVE  SumFunctionOnSet([u \in M |-> SumFunctionOnSet(
           [i \in S |-> IF w[i] = u THEN x[i] ELSE 0], S)], M) = SumFunctionOnSet(x, S)
<1>. DEFINE part(u) == [i \in S |-> IF w[i] = u THEN x[i] ELSE 0]
            G(r) == [u \in M |-> SumFunctionOnSet(part(u), r)]
            Holds(r) == SumFunctionOnSet(G(r), M) = SumFunctionOnSet(x, r)
            Bad == {n \in Nat : \E r \in SUBSET S : Cardinality(r) = n /\ ~ Holds(r)}
<1>1. \A u : \A i \in S : part(u)[i] = (IF w[i] = u THEN x[i] ELSE 0) /\ part(u)[i] \in Int OBVIOUS
<1>. HIDE DEF part
<1>2. \A r \in SUBSET S : \A u \in M : G(r)[u] = SumFunctionOnSet(part(u), r) /\ G(r)[u] \in Int
  <2>. SUFFICES ASSUME NEW r \in SUBSET S, NEW u \in M
                PROVE  SumFunctionOnSet(part(u), r) \in Int OBVIOUS
  <2>1. IsFiniteSet(r) /\ \A i \in r : part(u)[i] \in Int BY <1>1, FS_Subset
  <2>. QED BY <2>1, SumInt
<1>3. G({}) = [u \in M |-> 0]
  <2>1. \A u : SumFunctionOnSet(part(u), {}) = 0 BY SumEmpty
  <2>. QED BY <2>1
<1>. HIDE DEF G
<1>4. Bad = {}
  <2>. SUFFICES ASSUME Bad # {} PROVE FALSE OBVIOUS
  <2>1. PICK n \in Bad : \A m \in Bad : n <= m BY LeastNat
  <2>2. PICK r \in SUBSET S : Cardinality(r) = n /\ ~ Holds(r) BY <2>1
  <2>3. IsFiniteSet(r) BY FS_Subset
  <2>4. CASE r = {}
    <3>1. SumFunctionOnSet([u \in M |-> 0], M) = 0 BY SumZero
    <3>2. SumFunctionOnSet(x, {}) = 0 BY SumEmpty
    <3>. QED BY <1>3, <2>2, <2>4, <3>1, <3>2
  <2>5. CASE r # {}
    <3>1. PICK z \in r : TRUE BY <2>5
    <3>. DEFINE q == r \ {z}
    <3>2. q \in SUBSET S /\ Cardinality(q) = n - 1 /\ n - 1 \in Nat BY <2>2, <2>5, PickSmaller
    <3>3. IsFiniteSet(q) BY <3>2, FS_Subset
    <3>4. Holds(q) BY <2>1, <3>2
    <3>5. SumFunctionOnSet(x, r) = x[z] + SumFunctionOnSet(x, q) BY <2>3, SumRemove
    <3>6. \A u \in M : G(r)[u] = part(u)[z] + G(q)[u]
      <4>. SUFFICES ASSUME NEW u \in M PROVE G(r)[u] = part(u)[z] + G(q)[u] OBVIOUS
      <4>1. \A i \in r : part(u)[i] \in Int BY <1>1
      <4>2. SumFunctionOnSet(part(u), r) = part(u)[z] + SumFunctionOnSet(part(u), q)
        BY <2>3, <4>1, SumRemove
      <4>. HIDE DEF q
      <4>. QED BY <1>2, <3>2, <4>2
    <3>7. x[z] \in Int /\ (w[z] \notin M => x[z] = 0) OBVIOUS
    <3>8. \A u \in M : part(u)[z] = IF w[z] = u THEN x[z] ELSE 0 BY <1>1
    <3>9. SumFunctionOnSet(x, q) \in Int BY <3>3, SumInt
    <3>. HIDE DEF q
    <3>10. \A u \in M : G(q)[u] \in Int /\ G(r)[u] \in Int BY <1>2, <3>2
    <3>11. CASE w[z] \in M
      <4>. DEFINE a == w[z]
      <4>1. G(r)[a] = x[z] + G(q)[a] BY <3>6, <3>8, <3>11
      <4>2. \A u \in M \ {a} : G(r)[u] = G(q)[u] BY <3>6, <3>8, <3>10
      <4>. HIDE DEF a
      <4>3. a \in M BY <3>11 DEF a
      <4>4. SumFunctionOnSet(G(r), M) = SumFunctionOnSet(G(q), M) + G(r)[a] - G(q)[a]
        BY <3>10, <4>2, <4>3, SumUpdate
      <4>5. SumFunctionOnSet(G(q), M) \in Int /\ G(q)[a] \in Int /\ G(r)[a] \in Int
        BY <3>10, <4>3, SumInt
      <4>6. Holds(r) BY <3>4, <3>5, <3>7, <3>9, <4>1, <4>4, <4>5
      <4>. QED BY <2>2, <4>6
    <3>12. CASE w[z] \notin M
      <4>1. \A u \in M : G(r)[u] = G(q)[u] BY <3>6, <3>8, <3>10, <3>12
      <4>2. SumFunctionOnSet(G(r), M) = SumFunctionOnSet(G(q), M) BY <3>10, <4>1, SumAgree
      <4>3. Holds(r) BY <3>4, <3>5, <3>7, <3>9, <3>12, <4>2
      <4>. QED BY <2>2, <4>3
    <3>. QED BY <3>11, <3>12
  <2>. QED BY <2>4, <2>5
<1>5. S \in SUBSET S /\ Cardinality(S) \in Nat BY FS_CardinalityType
<1>6. Holds(S) BY <1>4, <1>5
<1>. QED BY <1>6 DEF G, part

(* A finite set of natural numbers that is not empty has a greatest one.   *)
LEMMA GreatestNat ==
  ASSUME NEW T, IsFiniteSet(T), T \subseteq Nat, T # {}
  PROVE  \E n \in T : \A m \in T : m <= n
<1>. DEFINE f == [x \in T |-> x]
            B == {b \in Nat : \A m \in T : m <= b}
<1>1. \A x \in T : f[x] \in Nat /\ f[x] = x OBVIOUS
<1>. HIDE DEF f
<1>2. SumFunctionOnSet(f, T) \in B
  <2>1. \A x \in T : f[x] <= SumFunctionOnSet(f, T) BY <1>1, SumElement
  <2>2. SumFunctionOnSet(f, T) \in Nat BY <1>1, SumNat
  <2>. QED BY <1>1, <2>1, <2>2
<1>3. PICK b \in B : \A k \in B : b <= k BY <1>2, LeastNat
<1>4. b \in Nat /\ \A m \in T : m <= b BY <1>3
<1>5. b \in T
  <2>. SUFFICES ASSUME b \notin T PROVE FALSE OBVIOUS
  <2>1. \A m \in T : m \in Nat /\ m < b BY <1>4
  <2>2. PICK m \in T : TRUE OBVIOUS
  <2>3. b - 1 \in Nat /\ \A k \in T : k <= b - 1 BY <1>4, <2>1, <2>2
  <2>4. b - 1 \in B BY <2>3
  <2>5. b <= b - 1 BY <1>3, <2>4
  <2>. QED BY <1>4, <2>5
<1>. QED BY <1>4, <1>5

(* The values of a function on a finite set are finitely many.             *)
LEMMA FiniteImage ==
  ASSUME NEW S, IsFiniteSet(S), NEW f
  PROVE  IsFiniteSet({f[x] : x \in S})
<1>. DEFINE T == {f[x] : x \in S}
            g == [x \in S |-> f[x]]
<1>1. g \in Surjection(S, T) BY DEF Surjection
<1>. HIDE DEF T, g
<1>2. IsFiniteSet(T) BY <1>1, FS_Surjection
<1>. QED BY <1>2 DEF T

(* A finite set that A orders: the elements ahead of each one.             *)
InOrder(C, A) ==
  /\ IsFiniteSet(C) /\ A \in [C -> SUBSET C]
  /\ \A i \in C : i \notin A[i]
  /\ \A i \in C : \A j \in A[i] : A[j] \subseteq A[i]
  /\ \A i, j \in C : i = j \/ i \in A[j] \/ j \in A[i]

(* What each element adds to a quantity G of sets.                         *)
AddsUp(C, A, G, d) == \A i \in C : d[i] = G[A[i] \cup {i}] - G[A[i]]

(* In a finite set that is ordered by A, the set of elements ahead of each *)
(* one, something that is closed under being ahead has a last element.     *)
LEMMA LastInOrder ==
  ASSUME NEW C, IsFiniteSet(C), NEW A \in [C -> SUBSET C],
         \A i \in C : i \notin A[i],
         \A i \in C : \A j \in A[i] : A[j] \subseteq A[i],
         \A i, j \in C : i = j \/ i \in A[j] \/ j \in A[i],
         NEW r \in SUBSET C, r # {}, \A i \in r : A[i] \subseteq r
  PROVE  \E z \in r : r \ {z} = A[z]
<1>. DEFINE Behind(z) == r \ A[z]
            N == {Cardinality(Behind(z)) : z \in r}
<1>1. IsFiniteSet(r) BY FS_Subset
<1>2. \A z \in r : IsFiniteSet(Behind(z)) /\ Cardinality(Behind(z)) \in Nat
  BY <1>1, FS_Subset, FS_CardinalityType
<1>3. N \subseteq Nat /\ N # {}
  <2>. HIDE DEF Behind
  <2>1. PICK z \in r : TRUE OBVIOUS
  <2>2. Cardinality(Behind(z)) \in N OBVIOUS
  <2>. QED BY <1>2, <2>2
<1>4. PICK n \in N : \A m \in N : n <= m BY <1>3, LeastNat
<1>5. PICK z \in r : n = Cardinality(Behind(z)) BY <1>4
<1>6. ASSUME NEW y \in r, y # z, y \notin A[z] PROVE FALSE
  <2>1. z \in A[y] /\ A[z] \subseteq A[y] BY <1>6
  <2>2. Behind(y) \in SUBSET Behind(z) /\ z \in Behind(z) /\ z \notin Behind(y) BY <2>1
  <2>3. Behind(y) # Behind(z) BY <2>2
  <2>4. IsFiniteSet(Behind(z)) BY <1>2
  <2>. HIDE DEF Behind
  <2>5. Cardinality(Behind(y)) <= Cardinality(Behind(z)) /\ Cardinality(Behind(y)) # Cardinality(Behind(z))
    BY <2>2, <2>3, <2>4, FS_Subset
  <2>6. Cardinality(Behind(y)) \in N BY DEF N
  <2>7. Cardinality(Behind(z)) <= Cardinality(Behind(y)) BY <1>4, <1>5, <2>6
  <2>8. Cardinality(Behind(y)) \in Nat /\ Cardinality(Behind(z)) \in Nat BY <1>2
  <2>. QED BY <2>5, <2>7, <2>8
<1>7. r \ {z} = A[z]
  <2>1. z \notin A[z] /\ A[z] \subseteq r OBVIOUS
  <2>2. \A y \in r : y # z => y \in A[z] BY <1>6
  <2>. QED BY <2>1, <2>2
<1>. QED BY <1>7

(* What each element in an order adds to a quantity adds up to the whole.  *)
LEMMA Telescope ==
  ASSUME NEW C, NEW A, InOrder(C, A), NEW G \in [SUBSET C -> Int], NEW d, AddsUp(C, A, G, d)
  PROVE  SumFunctionOnSet(d, C) = G[C] - G[{}]
<1>. DEFINE Closed(r) == \A i \in r : A[i] \subseteq r
            Holds(r) == SumFunctionOnSet(d, r) = G[r] - G[{}]
            Bad == {n \in Nat : \E r \in SUBSET C : Closed(r) /\ Cardinality(r) = n /\ ~ Holds(r)}
<1>a. /\ IsFiniteSet(C) /\ A \in [C -> SUBSET C]
      /\ \A i \in C : i \notin A[i]
      /\ \A i \in C : \A j \in A[i] : A[j] \subseteq A[i]
      /\ \A i, j \in C : i = j \/ i \in A[j] \/ j \in A[i]
      /\ \A i \in C : d[i] = G[A[i] \cup {i}] - G[A[i]]
  BY DEF InOrder, AddsUp
<1>. USE <1>a
<1>0. {} \in SUBSET C OBVIOUS
<1>1. \A r \in SUBSET C : G[r] \in Int OBVIOUS
<1>2. Bad = {}
  <2>. SUFFICES ASSUME Bad # {} PROVE FALSE OBVIOUS
  <2>1. PICK n \in Bad : \A m \in Bad : n <= m BY LeastNat
  <2>2. PICK r \in SUBSET C : Closed(r) /\ Cardinality(r) = n /\ ~ Holds(r) BY <2>1
  <2>3. IsFiniteSet(r) BY FS_Subset
  <2>4. CASE r = {}
    <3>1. SumFunctionOnSet(d, {}) = 0 BY SumEmpty
    <3>2. G[{}] \in Int BY <1>0, <1>1
    <3>3. G[{}] - G[{}] = 0 BY <3>2
    <3>. QED BY <2>2, <2>4, <3>1, <3>3
  <2>5. CASE r # {}
    <3>1. PICK z \in r : r \ {z} = A[z] BY <2>2, <2>5, LastInOrder
    <3>. DEFINE q == r \ {z}
    <3>2. q \in SUBSET C /\ Cardinality(q) = n - 1 /\ n - 1 \in Nat BY <2>2, <2>5, PickSmaller
    <3>3. Closed(q) BY <3>1
    <3>4. Holds(q) BY <2>1, <3>2, <3>3
    <3>5. \A i \in r : d[i] \in Int
      <4>. SUFFICES ASSUME NEW i \in r PROVE d[i] \in Int OBVIOUS
      <4>1. A[i] \cup {i} \in SUBSET C /\ A[i] \in SUBSET C OBVIOUS
      <4>2. d[i] = G[A[i] \cup {i}] - G[A[i]] OBVIOUS
      <4>. QED BY <1>1, <4>1, <4>2
    <3>6. SumFunctionOnSet(d, r) = d[z] + SumFunctionOnSet(d, q) BY <2>3, <3>5, SumRemove
    <3>7. d[z] = G[r] - G[q]
      <4>1. A[z] \cup {z} = r /\ A[z] = q BY <3>1
      <4>. QED BY <4>1
    <3>8. G[r] \in Int /\ G[q] \in Int /\ G[{}] \in Int BY <1>0, <1>1, <3>2
    <3>. HIDE DEF q
    <3>9. Holds(r) BY <3>4, <3>6, <3>7, <3>8
    <3>. QED BY <2>2, <3>9
  <2>. QED BY <2>4, <2>5
<1>3. C \in SUBSET C /\ Closed(C) /\ Cardinality(C) \in Nat BY FS_CardinalityType
<1>4. Holds(C) BY <1>2, <1>3
<1>. QED BY <1>4

-----------------------------------------------------------------------------
(* The same laws for SumFunction, the total of a whole function: the form  *)
(* the invariants are written in.                                          *)

(* A finite total of integers is an integer.                               *)
LEMMA TotalInt ==
  ASSUME NEW S, IsFiniteSet(S), NEW f \in [S -> Int]
  PROVE  SumFunction(f) \in Int
BY SumInt DEF SumFunction

(* A finite total of natural numbers is a natural number.                  *)
LEMMA TotalNat ==
  ASSUME NEW S, IsFiniteSet(S), NEW f \in [S -> Nat]
  PROVE  SumFunction(f) \in Nat
BY SumNat DEF SumFunction

(* A total of zeros is zero.                                               *)
LEMMA TotalZero ==
  ASSUME NEW S, IsFiniteSet(S), NEW f \in [S -> Int], \A x \in S : f[x] = 0
  PROVE  SumFunction(f) = 0
BY SumZero DEF SumFunction

(* Changing one element changes the total by the difference.               *)
LEMMA TotalUpdate ==
  ASSUME NEW S, IsFiniteSet(S), NEW f \in [S -> Int], NEW g \in [S -> Int],
         NEW x \in S, \A y \in S \ {x} : g[y] = f[y]
  PROVE  SumFunction(g) = SumFunction(f) + g[x] - f[x]
<1>1. g[x] \in Int /\ \A y \in S : f[y] \in Int OBVIOUS
<1>2. SumFunctionOnSet(g, S) = SumFunctionOnSet(f, S) + g[x] - f[x] BY <1>1, SumUpdate
<1>. QED BY <1>2 DEF SumFunction

(* Moving an amount from one element to another leaves the total alone.    *)
LEMMA TotalTransfer ==
  ASSUME NEW S, IsFiniteSet(S), NEW f \in [S -> Int], NEW g \in [S -> Int],
         NEW x \in S, NEW y \in S, x # y, g[x] + g[y] = f[x] + f[y],
         \A z \in S \ {x, y} : g[z] = f[z]
  PROVE  SumFunction(g) = SumFunction(f)
<1>. DEFINE h == [f EXCEPT ![x] = g[x]]
<1>1. h \in [S -> Int] /\ \A z \in S : h[z] = IF z = x THEN g[x] ELSE f[z] OBVIOUS
<1>. HIDE DEF h
<1>2. SumFunction(h) = SumFunction(f) + h[x] - f[x]
  <2>1. \A z \in S \ {x} : h[z] = f[z] BY <1>1
  <2>. QED BY <1>1, <2>1, TotalUpdate
<1>3. \A z \in S \ {y} : g[z] = h[z] BY <1>1
<1>4. SumFunction(g) = SumFunction(h) + g[y] - h[y] BY <1>1, <1>3, TotalUpdate
<1>5. SumFunction(f) \in Int /\ SumFunction(h) \in Int BY <1>1, TotalInt
<1>6. f[x] \in Int /\ f[y] \in Int /\ g[x] \in Int /\ g[y] \in Int OBVIOUS
<1>. QED BY <1>1, <1>2, <1>4, <1>5, <1>6

(* The total of a pointwise sum is the sum of the totals.                  *)
LEMMA TotalAdd ==
  ASSUME NEW S, IsFiniteSet(S), NEW f \in [S -> Int], NEW g \in [S -> Int],
         NEW h \in [S -> Int], \A x \in S : h[x] = f[x] + g[x]
  PROVE  SumFunction(h) = SumFunction(f) + SumFunction(g)
<1>1. SumFunctionOnSet(h, S) = SumFunctionOnSet(f, S) + SumFunctionOnSet(g, S) BY SumAdd
<1>. QED BY <1>1 DEF SumFunction

(* The total of a multiple is the multiple of the total.                   *)
LEMMA TotalScale ==
  ASSUME NEW S, IsFiniteSet(S), NEW f \in [S -> Int], NEW g \in [S -> Int],
         NEW k \in Int, \A x \in S : g[x] = k * f[x]
  PROVE  SumFunction(g) = k * SumFunction(f)
<1>1. SumFunctionOnSet(g, S) = k * SumFunctionOnSet(f, S) BY SumScale
<1>. QED BY <1>1 DEF SumFunction

(* A total is at most another when each of its elements is.                *)
LEMMA TotalMono ==
  ASSUME NEW S, IsFiniteSet(S), NEW f \in [S -> Int], NEW g \in [S -> Int],
         \A x \in S : f[x] <= g[x]
  PROVE  SumFunction(f) <= SumFunction(g)
<1>1. SumFunctionOnSet(f, S) <= SumFunctionOnSet(g, S) BY SumMono
<1>. QED BY <1>1 DEF SumFunction

(* One element of a total of natural numbers is at most the total.         *)
LEMMA TotalElement ==
  ASSUME NEW S, IsFiniteSet(S), NEW f \in [S -> Nat], NEW x \in S
  PROVE  f[x] <= SumFunction(f)
BY SumElement DEF SumFunction

(* The total over a sequence with one more element, the sequence being any *)
(* function on the first numbers.                                          *)
LEMMA TotalAppend ==
  ASSUME NEW n \in Nat, NEW f \in [1..n -> Int], NEW g \in [1..(n + 1) -> Int],
         \A i \in 1..n : g[i] = f[i]
  PROVE  SumFunction(g) = SumFunction(f) + g[n + 1]
<1>. DEFINE S == 1..(n + 1)  T == 1..n
<1>1. IsFiniteSet(S) /\ IsFiniteSet(T) BY FS_Interval
<1>2. n + 1 \in S /\ S \ {n + 1} = T OBVIOUS
<1>3. \A i \in S : g[i] \in Int OBVIOUS
<1>4. SumFunctionOnSet(g, S) = g[n + 1] + SumFunctionOnSet(g, T) BY <1>1, <1>2, <1>3, SumRemove
<1>5. SumFunctionOnSet(g, T) = SumFunctionOnSet(f, T) BY <1>1, SumAgree
<1>6. SumFunctionOnSet(f, T) \in Int BY <1>1, SumInt
<1>. QED BY <1>2, <1>3, <1>4, <1>5, <1>6 DEF SumFunction

-----------------------------------------------------------------------------
(* Arithmetic of parts: the rounding of shares and rewards.                *)

(* Quotient and remainder by a positive number are what they should be.    *)
LEMMA DivMod ==
  ASSUME NEW x \in Nat, NEW k \in Nat \ {0}
  PROVE  /\ x \div k \in 0..x
         /\ x % k \in 0..(k - 1)
         /\ x % k <= x
         /\ x = (k * (x \div k)) + (x % k)
  OBVIOUS

(* Multiplication of natural numbers is monotone, and may be cancelled.    *)
LEMMA MulMono ==
  ASSUME NEW x \in Nat, NEW y \in Nat, NEW k \in Nat
  PROVE  /\ x <= y => k * x <= k * y
         /\ k # 0 /\ x < y => k * x < k * y
         /\ k * x < k * y => x < y
  OBVIOUS

(* It is commutative, associative and distributive.                        *)
LEMMA MulLaws ==
  /\ \A x, y \in Nat : x * y \in Nat /\ x * y = y * x
  /\ \A x, y, z \in Nat : /\ x * (y * z) = (x * y) * z
                          /\ x * (y + z) = x * y + x * z
  OBVIOUS

(* Rounding to the nearest, halves down, exceeds by less than a half.      *)
LEMMA RoundedBelow ==
  ASSUME NEW q \in Nat, NEW r \in Nat, NEW u \in {0, 1}, NEW z \in Nat, NEW k \in Nat \ {0},
     z = k * q + r, r < k, u = 1 => 2 * r > k
  PROVE 2 * (k * (q + u)) < 2 * z + k
<1>1. k * (q + u) = k * q + k * u OBVIOUS
<1>2. k * q \in Nat OBVIOUS
<1>3. CASE u = 0 BY <1>1, <1>2, <1>3
<1>4. CASE u = 1 BY <1>1, <1>2, <1>4
<1> QED BY <1>3, <1>4

(* The part a of t of an amount p, where 1/K is the accuracy of parts:     *)
(* rounded down to a multiple of it, then to the nearest unit, halves down.*)
RoundedPart(K, a, t, p) ==
  LET scaled == ((K * (IF a <= t THEN a ELSE t)) \div t) * p
  IN  scaled \div K + (IF 2 * (scaled % K) > K THEN 1 ELSE 0)

(* It exceeds the exact part by less than half a unit.                     *)
LEMMA PartRounded ==
  ASSUME NEW K \in Nat \ {0}, NEW a \in Nat, NEW t \in Nat \ {0}, NEW p \in Nat
  PROVE  /\ RoundedPart(K, a, t, p) \in Nat
         /\ 2 * (t * RoundedPart(K, a, t, p)) < 2 * (p * a) + t
<1>. DEFINE w == IF a <= t THEN a ELSE t
            fr == (K * w) \div t
            z == fr * p
            sh == RoundedPart(K, a, t, p)
            u == IF 2 * (z % K) > K THEN 1 ELSE 0
<1>1. w \in Nat /\ w <= a OBVIOUS
<1>. HIDE DEF w
<1>2. K * w \in Nat /\ K * w <= K * a BY <1>1, MulMono
<1>3. fr \in Nat /\ t * fr <= K * w
  <2>1. \A x \in Nat : x \div t \in Nat /\ t * (x \div t) <= x
    <3> SUFFICES ASSUME NEW x \in Nat PROVE  x \div t \in Nat /\ t * (x \div t) <= x OBVIOUS
    <3>1. x \div t \in 0..x /\ x % t \in 0..(t - 1) /\ x = (t * (x \div t)) + (x % t) BY DivMod
    <3>. DEFINE y == x \div t
    <3>2. t * y \in Nat BY <3>1
    <3>. QED BY <3>1, <3>2
  <2>. QED BY <1>2, <2>1
<1>4. z = ((K * (IF a <= t THEN a ELSE t)) \div t) * p BY DEF w
<1>. HIDE DEF fr
<1>5. z \in Nat BY <1>3
<1>6. sh = (z \div K) + u BY <1>4 DEF RoundedPart
<1>. HIDE DEF z, sh
<1>7. z \div K \in Nat /\ z % K \in Nat /\ z % K < K /\ z = K * (z \div K) + (z % K)
  BY <1>5, DivMod
<1>8. u \in {0, 1} /\ (u = 1 => 2 * (z % K) > K) OBVIOUS
<1>. HIDE DEF u
<1>9. 2 * (K * sh) < 2 * z + K BY <1>5, <1>6, <1>7, <1>8, RoundedBelow
<1>10. sh \in Nat BY <1>6, <1>7, <1>8
<1>11. t * z <= K * (p * a)
  <2>1. t * fr <= K * a /\ t * fr \in Nat /\ K * a \in Nat BY <1>2, <1>3
  <2>2. p * (t * fr) <= p * (K * a) BY <2>1, MulMono
  <2>3. p * (t * fr) = t * z
    <3>1. p * (t * fr) = (p * t) * fr /\ p * t = t * p /\ (t * p) * fr = t * (p * fr) /\ p * fr = fr * p
      BY <1>3, MulLaws
    <3>. QED BY <3>1 DEF z
  <2>4. p * (K * a) = K * (p * a)
    <3>1. p * (K * a) = (p * K) * a /\ p * K = K * p /\ (K * p) * a = K * (p * a)
      BY MulLaws
    <3>. QED BY <3>1
  <2>. QED BY <2>2, <2>3, <2>4
<1>12. K * (2 * (t * sh)) < K * (2 * (p * a) + t)
  <2>. DEFINE A == t * sh  B == p * a
  <2>1. A \in Nat /\ B \in Nat /\ K * A \in Nat /\ K * B \in Nat /\ t * z \in Nat /\ K * t \in Nat
    BY <1>5, <1>10, MulLaws
  <2>2. t * (2 * (K * sh)) < t * (2 * z + K)
    <3>1. 2 * (K * sh) \in Nat /\ 2 * z + K \in Nat BY <1>5, <1>10
    <3>. QED BY <1>9, <3>1, MulMono
  <2>3. t * (2 * (K * sh)) = 2 * (K * A)
    <3>1. K * sh \in Nat BY <1>10
    <3>2. t * (2 * (K * sh)) = 2 * (t * (K * sh)) BY <3>1
    <3>3. t * (K * sh) = (t * K) * sh /\ t * K = K * t /\ (K * t) * sh = K * (t * sh)
      BY <1>10, MulLaws
    <3>. QED BY <3>2, <3>3
  <2>4. t * (2 * z + K) = 2 * (t * z) + K * t BY <1>5
  <2>. HIDE DEF A, B
  <2>5. 2 * (K * A) < 2 * (K * B) + K * t
    <3>1. t * z <= K * B BY <1>11 DEF B
    <3>. QED BY <2>1, <2>2, <2>3, <2>4, <3>1
  <2>6. K * (2 * A) = 2 * (K * A) /\ K * (2 * B + t) = 2 * (K * B) + K * t
    BY <2>1
  <2>7. K * (2 * A) < K * (2 * B + t) BY <2>5, <2>6
  <2>. QED BY <2>7 DEF A, B
<1>13. 2 * (t * sh) \in Nat /\ 2 * (p * a) + t \in Nat
  <2>1. t * sh \in Nat /\ p * a \in Nat BY <1>10, MulLaws
  <2>. QED BY <2>1
<1>14. 2 * (t * sh) < 2 * (p * a) + t BY <1>12, <1>13, MulMono
<1>. QED BY <1>10, <1>14 DEF sh

(* Shares of P in proportion to parts of T, each rounded up by less than a *)
(* half, exceed P by less than half a unit for each payee (Ti counts them).*)
LEMMA TotalRounded ==
  ASSUME NEW S, IsFiniteSet(S), NEW T \in Nat \ {0}, NEW P \in Nat,
         NEW Sh \in [S -> Nat], NEW Ti \in [S -> Nat], NEW Ba \in [S -> Nat],
         \A a \in S : /\ Ti[a] <= 1
                      /\ Ti[a] = 0 => Sh[a] = 0 /\ Ba[a] = 0
                      /\ Ti[a] # 0 => 2 * (T * Sh[a]) < 2 * (P * Ba[a]) + T,
         SumFunction(Ba) <= T, SumFunction(Sh) > 0
  PROVE  2 * SumFunction(Sh) < 2 * P + SumFunction(Ti)
  <1> DEFINE Lhs == [a \in S |-> (2 * T) * Sh[a] + Ti[a]]
             Rhs == [a \in S |-> (2 * P) * Ba[a] + T * Ti[a]]
  <1>1. PICK x \in S : Sh[x] # 0
    <2>1. CASE \A y \in S : Sh[y] = 0
      <3>1. Sh \in [S -> Int]
        OBVIOUS
      <3>2. SumFunction(Sh) = 0
        BY <2>1, <3>1, TotalZero
      <3> QED BY <3>2
    <2> QED BY <2>1
  <1>2. Ti[x] # 0
    BY <1>1
  <1>3. \A a \in S : Lhs[a] <= Rhs[a]
    <2> SUFFICES ASSUME NEW a \in S
                 PROVE  (2 * T) * Sh[a] + Ti[a] <= (2 * P) * Ba[a] + T * Ti[a]
      OBVIOUS
    <2>1. Sh[a] \in Nat /\ Ba[a] \in Nat /\ Ti[a] \in Nat
      OBVIOUS
    <2>2. (2 * T) * Sh[a] = 2 * (T * Sh[a]) /\ (2 * P) * Ba[a] = 2 * (P * Ba[a])
          /\ T * Sh[a] \in Nat /\ P * Ba[a] \in Nat
      BY <2>1, MulLaws
    <2>3. CASE Ti[a] = 0
      <3>1. Sh[a] = 0 /\ Ba[a] = 0
        BY <2>3
      <3>2. (2 * T) * 0 = 0 /\ (2 * P) * 0 = 0 /\ T * 0 = 0
        OBVIOUS
      <3> QED BY <2>3, <3>1, <3>2
    <2>4. CASE Ti[a] # 0
      <3>1. Ti[a] = 1
        BY <2>1, <2>4
      <3>2. 2 * (T * Sh[a]) < 2 * (P * Ba[a]) + T
        BY <2>4
      <3> QED BY <2>2, <3>1, <3>2
    <2> QED BY <2>3, <2>4
  <1>4. (2 * T) * SumFunction(Sh) + SumFunction(Ti) <= (2 * P) * SumFunction(Ba) + T * SumFunction(Ti)
    <2> DEFINE A1 == [a \in S |-> (2 * T) * Sh[a]]
               B1 == [a \in S |-> (2 * P) * Ba[a]]
               B2 == [a \in S |-> T * Ti[a]]
               k == 2 * T
               r == 2 * P
    <2>0. /\ Sh \in [S -> Int] /\ Ti \in [S -> Int] /\ Ba \in [S -> Int]
          /\ k \in Int /\ r \in Int /\ T \in Int
      OBVIOUS
    <2>1. A1 \in [S -> Int] /\ B1 \in [S -> Int] /\ B2 \in [S -> Int]
          /\ Lhs \in [S -> Int] /\ Rhs \in [S -> Int]
      OBVIOUS
    <2>a. \A a \in S : A1[a] = k * Sh[a]
      OBVIOUS
    <2>b. \A a \in S : B1[a] = r * Ba[a]
      OBVIOUS
    <2>c. \A a \in S : B2[a] = T * Ti[a]
      OBVIOUS
    <2>d. \A a \in S : Lhs[a] = A1[a] + Ti[a]
      OBVIOUS
    <2>e. \A a \in S : Rhs[a] = B1[a] + B2[a]
      OBVIOUS
    <2> HIDE DEF A1, B1, B2, Lhs, Rhs
    <2>3. SumFunction(Lhs) <= SumFunction(Rhs)
      BY <1>3, <2>1, TotalMono
    <2>4. SumFunction(Lhs) = SumFunction(A1) + SumFunction(Ti)
      BY <2>0, <2>1, <2>d, TotalAdd
    <2>5. SumFunction(Rhs) = SumFunction(B1) + SumFunction(B2)
      BY <2>0, <2>1, <2>e, TotalAdd
    <2> HIDE DEF k, r
    <2>6. SumFunction(A1) = k * SumFunction(Sh)
      BY <2>0, <2>1, <2>a, TotalScale
    <2>7. SumFunction(B1) = r * SumFunction(Ba)
      BY <2>0, <2>1, <2>b, TotalScale
    <2>8. SumFunction(B2) = T * SumFunction(Ti)
      BY <2>0, <2>1, <2>c, TotalScale
    <2> QED BY <2>3, <2>4, <2>5, <2>6, <2>7, <2>8 DEF k, r
  <1>5. SumFunction(Ti) >= 1
    <2>1. Ti[x] <= SumFunction(Ti)
      BY TotalElement
    <2> QED BY <1>2, <2>1, TotalNat
  <1>6. SumFunction(Sh) \in Nat /\ SumFunction(Ti) \in Nat /\ SumFunction(Ba) \in Nat
    BY TotalNat
  <1> DEFINE sh == SumFunction(Sh)
             ti == SumFunction(Ti)
             ba == SumFunction(Ba)
  <1>7. 2 * sh < 2 * P + ti
    <2> HIDE DEF sh, ti, ba
    <2>1. sh \in Nat /\ ti \in Nat /\ ba \in Nat /\ ba <= T /\ ti >= 1
          /\ (2 * T) * sh + ti <= (2 * P) * ba + T * ti
      BY <1>4, <1>5, <1>6 DEF sh, ti, ba
    <2>2. (2 * P) * ba <= (2 * P) * T
      <3>1. 2 * P \in Nat
        OBVIOUS
      <3> QED BY <2>1, <3>1, MulMono
    <2>3. (2 * T) * sh < (2 * P) * T + T * ti
      <3>1. (2 * T) * sh \in Nat /\ (2 * P) * ba \in Nat /\ (2 * P) * T \in Nat /\ T * ti \in Nat
        BY <2>1, MulLaws
      <3>2. ASSUME NEW A \in Nat, NEW B \in Nat, NEW C \in Nat, NEW D \in Nat,
                   A + ti <= B + D, B <= C
            PROVE  A < C + D
        BY ONLY <2>1, <3>2
      <3> HIDE DEF Lhs, Rhs
      <3> QED BY ONLY <2>1, <2>2, <3>1, <3>2
    <2>4. (2 * T) * sh = T * (2 * sh) /\ (2 * P) * T + T * ti = T * (2 * P + ti)
      BY <2>1, MulLaws
    <2>5. 2 * sh \in Nat /\ 2 * P + ti \in Nat
      BY <2>1
    <2>6. T * (2 * sh) < T * (2 * P + ti)
      BY <2>3, <2>4
    <2> DEFINE u == 2 * sh
               w == 2 * P + ti
    <2> HIDE DEF u, w
    <2>7. u < w
      BY <2>5, <2>6, MulMono DEF u, w
    <2> QED BY <2>7 DEF u, w
  <1> QED BY <1>7
=============================================================================
