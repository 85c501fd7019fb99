------------------------------ MODULE MCAgent -------------------------------
(* Finite instance of Agent for TLC: a light call that pays someone and a  *)
(* heavy one that costs more fee.                                          *)
EXTENDS Agent

CONSTANTS Light, Heavy, Huge

MCRefTime == [c \in {Light, Heavy, Huge} |-> CASE c = Light -> 0 [] c = Heavy -> 1 [] OTHER -> 3]
MCProofSize == [c \in {Light, Heavy, Huge} |-> IF c = Huge THEN 2 ELSE 0]
MCSize == [c \in {Light, Heavy, Huge} |-> 1]
MCCost == [c \in {Light, Heavy, Huge} |-> IF c = Light THEN 1 ELSE 0]
=============================================================================
