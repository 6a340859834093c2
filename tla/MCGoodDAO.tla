------------------------------- MODULE MCGoodDAO -------------------------------
(* A small instance of the governance contracts. *)
EXTENDS GoodDAO, TLC

Symmetry == Permutations(Users)
===============================================================================
