------------------------------ MODULE FundingRate ------------------------------
(***************************************************************************)
(* The funding clock of a perpetuals market (perps/FundingRate.sol). Time  *)
(* is counted in whole funding intervals; a call of applyFunding settles   *)
(* at most one interval, however many have elapsed.                        *)
(***************************************************************************)
EXTENDS Integers, FiniteSets

CONSTANTS
    Markets,
    RateScale,        \* the scale of rates and of the index (1e18)
    MaxFundingRate,   \* MAX_FUNDING_RATE in that scale
    MaxTime           \* bound on the intervals that pass

ASSUME FundingConstants ==
    /\ IsFiniteSet(Markets)
    /\ RateScale \in Nat \ {0} /\ MaxFundingRate \in Nat /\ MaxTime \in Nat

VARIABLES
    now,                     \* funding intervals since the start
    lastFundingTime,         \* market -> intervals settled
    cumulativeFundingIndex   \* market -> index, scaled and signed

fundingVars == <<now, lastFundingTime, cumulativeFundingIndex>>

FundingInit ==
    /\ now = 0
    /\ lastFundingTime = [m \in Markets |-> 0]
    /\ cumulativeFundingIndex = [m \in Markets |-> 0]

(* Solidity's signed division rounds toward zero. *)
Quotient(a, b) == IF a >= 0 THEN a \div b ELSE -((-a) \div b)

Clamp(value, low, high) == IF value < low THEN low ELSE IF value > high THEN high ELSE value

Rate(mark, index) ==
    Clamp(Quotient((mark - index) * RateScale, index), -MaxFundingRate, MaxFundingRate)

ApplyFunding(m, mark, index) ==
    /\ IF now - lastFundingTime[m] < 1
       THEN UNCHANGED <<lastFundingTime, cumulativeFundingIndex>>
       ELSE /\ lastFundingTime' = [lastFundingTime EXCEPT ![m] = @ + 1]
            /\ cumulativeFundingIndex' = [cumulativeFundingIndex EXCEPT ![m] = @ + Rate(mark, index)]
    /\ UNCHANGED now

InitMarket(m) ==
    /\ lastFundingTime' = [lastFundingTime EXCEPT ![m] = now]
    /\ cumulativeFundingIndex' = [cumulativeFundingIndex EXCEPT ![m] = 0]
    /\ UNCHANGED now

(* size is negative for a short position. *)
AccruedFunding(size, entryIndex, index) == Quotient(size * (index - entryIndex), RateScale)

IntervalPasses ==
    /\ now < MaxTime
    /\ now' = now + 1
    /\ UNCHANGED <<lastFundingTime, cumulativeFundingIndex>>
===============================================================================
