---------------------------- MODULE MCGoodLendPool ----------------------------
(* A small instance of the lending pool: two alike reserves, rates of tens  *)
(* of percent a tick, amounts of the order of RAY, that rounding matters.  *)
EXTENDS GoodLendPool, TLC

StartPrice == [a \in Assets |-> 1]
CallBounds == [user |-> 4, admin |-> 1]
Symmetry == Permutations(Users) \cup Permutations(Assets)
===============================================================================
