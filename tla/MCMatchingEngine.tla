---------------------------- MODULE MCMatchingEngine ----------------------------
(* A small matching engine for TLC. Users and spellings are interchangeable. *)
EXTENDS MatchingEngine, TLC

Symmetry == Permutations(Users) \cup Permutations(Spellings)
===============================================================================
