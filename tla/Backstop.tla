------------------------------ MODULE Backstop ------------------------------
(***************************************************************************)
(* What a liquidation backstop promises: every depositor has a stake, the  *)
(* stakes never exceed the pool, and bad debt is absorbed from all stakes  *)
(* in proportion, up to rounding.  StabilityPool implements it.            *)
(***************************************************************************)
EXTENDS Integers, Functions

CONSTANTS
    Depositors,
    Dust          \* units that rounding may cost a stake in one absorption

VARIABLES pool, stake

Init ==
    /\ pool = 0
    /\ stake = [u \in Depositors |-> 0]

Provide(u, amount) ==
    /\ amount > 0
    /\ pool' = pool + amount
    /\ stake' = [stake EXCEPT ![u] = @ + amount]

Take(u, amount) ==
    /\ 0 < amount /\ amount <= stake[u]
    /\ pool' = pool - amount
    /\ stake' = [stake EXCEPT ![u] = @ - amount]

(* Every stake shrinks by the factor pool'/pool, within one unit above and *)
(* Dust below; an exhausted pool leaves no stake at all.                   *)
Absorb(debt) ==
    /\ 0 < debt /\ debt <= pool
    /\ pool' = pool - debt
    /\ stake' \in [Depositors -> Nat]
    /\ pool' = 0 => \A u \in Depositors : stake'[u] = 0
    /\ \A u \in Depositors :
          /\ stake'[u] <= stake[u]
          /\ stake'[u] * pool < (stake[u] + 1) * pool' \/ stake'[u] = 0
          /\ (stake'[u] + Dust) * pool > stake[u] * pool'
    /\ SumFunctionOnSet(stake', Depositors) <= pool'

Next ==
    \/ \E u \in Depositors : \E amount \in 1..(pool' - pool) : Provide(u, amount)
    \/ \E u \in Depositors : \E amount \in 1..stake[u] : Take(u, amount)
    \/ \E debt \in 1..pool : Absorb(debt)

Spec == Init /\ [][Next]_<<pool, stake>>
=============================================================================
