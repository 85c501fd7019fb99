---------------------------- MODULE MCFoundation ----------------------------
(* Finite instance of Foundation for TLC: two plans that differ in every   *)
(* number, one with a single instalment.                                   *)
EXTENDS Foundation

CONSTANTS Early, Late

MCFund ==
  [a \in {Early, Late} |->
     IF a = Early
     THEN [delay_durations |-> 1, interval_durations |-> 1, times |-> 1,
           amount |-> 1, first_amount |-> 2]
     ELSE [delay_durations |-> 2, interval_durations |-> 2, times |-> 3,
           amount |-> 2, first_amount |-> 1]]
=============================================================================
