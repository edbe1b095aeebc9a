---------------------------- MODULE MCTwoRounds ----------------------------
(* TwoRounds for TLC.                                                      *)
EXTENDS TwoRounds

CONSTANT Retrying       \* the clients that try a second time
Tries == [c \in Readers \union Writers |-> IF c \in Retrying THEN 2 ELSE 1]
=============================================================================
