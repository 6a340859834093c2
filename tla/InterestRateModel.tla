--------------------------- MODULE InterestRateModel ---------------------------
(***************************************************************************)
(* InterestRateModel.sol: the two-slope rates of a reserve, in fixed point  *)
(* of unit RAY.  Everything is rounded down.                               *)
(***************************************************************************)
EXTENDS Integers

CONSTANTS
    RAY,             \* one, in fixed point
    Optimal,         \* optimalUtilization
    BaseRate,        \* baseVariableRate
    Slope1, Slope2   \* variableSlope1, variableSlope2

ASSUME RateConstants ==
    /\ RAY \in Nat \ {0}
    /\ Optimal \in 1..RAY - 1       \* setRateParams
    /\ BaseRate \in Nat /\ Slope1 \in Nat /\ Slope2 \in Nat

Utilization(deposits, borrows) ==
    IF deposits = 0 THEN 0
    ELSE LET ratio == (borrows * RAY) \div deposits IN IF ratio > RAY THEN RAY ELSE ratio

BorrowRate(utilization) ==
    BaseRate + IF utilization <= Optimal
               THEN (Slope1 * utilization) \div Optimal
               ELSE Slope1 + (Slope2 * (utilization - Optimal)) \div (RAY - Optimal)

(* The supply rate for a reserve factor in basis points. *)
SupplyRate(utilization, factor) ==
    (((BorrowRate(utilization) * utilization) \div RAY) * (RAY - (factor * RAY) \div 10000)) \div RAY
===============================================================================
