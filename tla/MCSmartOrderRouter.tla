--------------------------- MODULE MCSmartOrderRouter ---------------------------
(* A small router for TLC. *)
EXTENDS SmartOrderRouter, TLC

Symmetry == Permutations(Users)
===============================================================================
