----------------------------- MODULE MCPerpEngine -----------------------------
(* A small perpetuals market for TLC. *)
EXTENDS PerpEngine, TLC

Symmetry == Permutations(Users)
===============================================================================
