----------------------------- MODULE Foundation -----------------------------
(***************************************************************************)
(* pallet-fuso-foundation: the founders' funds.  Genesis deposits and      *)
(* reserves each fund; on_initialize gives it back, first_amount after     *)
(* delay durations and then amount every interval durations.               *)
(*                                                                         *)
(* The reserved balance of an account is one number of pallet_balances, an *)
(* external pallet, in which the locks of other pallets (stakes) are mixed *)
(* with the fund: unreserve takes what it is asked for, or all there is,   *)
(* and reports nothing the pallet looks at.  Other pallets are modelled as *)
(* careful ones that unreserve only what they reserved (module Staking).   *)
(***************************************************************************)
EXTENDS Balances

CONSTANTS
  Fund,        \* the genesis list: plan of each account
  Duration,    \* T::Duration, in blocks
  Amount,      \* amounts other pallets lock
  LastBlock    \* bound of the model

FoundationData ==
  [delay_durations : Nat \ {0}, interval_durations : Nat \ {0}, times : Nat \ {0},
   amount : Nat, first_amount : Nat]

(* With a delay of zero the first amount is never released (there is no    *)
(* on_initialize for block 0), with zero times the counter underflows, and *)
(* an interval of zero divides by zero: genesis must not hold such a plan. *)
ASSUME FoundationAssumption ==
  /\ Fund \in [Account -> FoundationData]
  /\ Duration \in Nat \ {0}
  /\ Amount \subseteq Nat
  /\ LastBlock \in Nat

VARIABLES
  height,      \* block number
  foundation,  \* Foundation; NoFund where the entry was removed
  reserved,    \* reserved balances of pallet_balances
  locked       \* what other pallets hold of reserved (history)

FoundationVars == <<height, foundation, free, reserved, locked>>

NoFund == [delay_durations |-> 0, interval_durations |-> 0, times |-> 0,
           amount |-> 0, first_amount |-> 0]

FoundationTypeOK ==
  /\ height \in Nat
  /\ foundation \in [Account -> FoundationData \cup {NoFund}]
  /\ free \in [Account -> Nat] /\ reserved \in [Account -> Nat]
  /\ locked \in [Account -> Nat]

Granted(f) == f.amount * f.times + f.first_amount

FoundationInit ==
  /\ height = 0
  /\ foundation = Fund
  /\ free = [a \in Account |-> 0]
  /\ reserved = [a \in Account |-> Granted(Fund[a])]
  /\ locked = [a \in Account |-> 0]

-----------------------------------------------------------------------------
(* The amount one pass of unlock_fund releases of a fund.                  *)
IsInstalment(f, d) ==
  d > f.delay_durations /\ (d - f.delay_durations) % f.interval_durations = 0
IsFirst(f, d) == d = f.delay_durations

DueEarly(f, d) ==                               \* mutant of Due
  IF d >= f.delay_durations /\ (d - f.delay_durations) % f.interval_durations = 0
  THEN f.amount ELSE 0
Due(f, d) ==
  IF IsInstalment(f, d) THEN f.amount ELSE IF IsFirst(f, d) THEN f.first_amount ELSE 0

(* An instalment counts down; the entry is removed after the last one.     *)
CountDown(f, d) ==
  IF ~IsInstalment(f, d) THEN f
  ELSE IF f.times = 1 THEN NoFund ELSE [f EXCEPT !.times = @ - 1]

Least(x, y) == IF x <= y THEN x ELSE y
Released(a, d) ==
  IF foundation[a] = NoFund THEN 0 ELSE Least(reserved[a], Due(foundation[a], d))

unlock_fund(d) ==
  /\ foundation' = [a \in Account |->
       IF foundation[a] = NoFund THEN NoFund ELSE CountDown(foundation[a], d)]
  /\ free' = [a \in Account |-> free[a] + Released(a, d)]
  /\ reserved' = [a \in Account |-> reserved[a] - Released(a, d)]

initialize(n) ==
  IF n % Duration = 0 THEN unlock_fund(n \div Duration)
  ELSE UNCHANGED <<foundation, free, reserved>>

FoundationNextBlock ==
  /\ height < LastBlock
  /\ height' = height + 1
  /\ initialize(height')
  /\ UNCHANGED locked

-----------------------------------------------------------------------------
(* Other pallets lock and release the accounts' free funds.                *)

Lock(a, v) ==
  /\ v > 0 /\ free[a] >= v
  /\ free' = [free EXCEPT ![a] = @ - v]
  /\ reserved' = [reserved EXCEPT ![a] = @ + v]
  /\ locked' = [locked EXCEPT ![a] = @ + v]
  /\ UNCHANGED <<height, foundation>>

Unlock(a, v) ==
  /\ v > 0 /\ locked[a] >= v
  /\ free' = [free EXCEPT ![a] = @ + v]
  /\ reserved' = [reserved EXCEPT ![a] = @ - v]
  /\ locked' = [locked EXCEPT ![a] = @ - v]
  /\ UNCHANGED <<height, foundation>>

-----------------------------------------------------------------------------
FoundationNext ==
  \/ FoundationNextBlock
  \/ \E a \in Account, v \in Amount : Lock(a, v) \/ Unlock(a, v)

FoundationSpec == FoundationInit /\ [][FoundationNext]_FoundationVars

-----------------------------------------------------------------------------
(* Properties.                                                             *)

(* What a plan promises to have released after d durations.                *)
Vested(f, d) ==
  IF d < f.delay_durations THEN 0
  ELSE f.first_amount
         + f.amount * Least(f.times, (d - f.delay_durations) \div f.interval_durations)

(* At every block the fund has released exactly what its plan promises:    *)
(* the countdown, the skipped blocks between durations and the removal of  *)
(* the entry together neither repeat nor lose an instalment, and unlocking *)
(* never reaches into what other pallets locked of the same balance.       *)
OnSchedule ==
  \A a \in Account :
    reserved[a] - locked[a] = Granted(Fund[a]) - Vested(Fund[a], height \div Duration)
=============================================================================
