-------------------------- MODULE MCStabilityPool --------------------------
(* A small instance of the stability pool for TLC. *)
EXTENDS StabilityPool, TLC

Symmetry == Permutations(Depositors)
=============================================================================
