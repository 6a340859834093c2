-------------------------- MODULE MCValidatorStaking --------------------------
(* A small instance of the staking contract: half of a stake is slashed at  *)
(* a time, and a stake of two earns one a tick.                            *)
EXTENDS ValidatorStaking, TLC

Symmetry == Permutations(Stakers)
===============================================================================
