------------------------------ MODULE MCPredict ------------------------------
(* Small instances of the prediction markets with their resolver. *)
EXTENDS OptimisticResolver, TLC

Symmetry == Permutations(Users) \cup Permutations(Markets)
=============================================================================
