----------------------------- MODULE GoodLendPool -----------------------------
(***************************************************************************)
(* The lending pool: GoodLendPool.sol with its gTokens (GoodLendToken.sol), *)
(* debt tokens (DebtToken.sol) and rates.  Balances are kept scaled by the  *)
(* index of the day they were made; the indexes grow with time and are     *)
(* brought up to date by whoever calls next.  The model starts after       *)
(* initReserve; prices are those SimplePriceOracle.sol is told.            *)
(***************************************************************************)
EXTENDS ChainClock, InterestRateModel, FiniteSets, Functions

CONSTANTS
    Users, Treasury, Assets,
    Amounts,            \* amounts that users name
    Prices,             \* 0 is an asset without a price
    InitialPrice,
    Threshold,          \* liquidationThresholdBPS
    Bonus,              \* liquidationBonusBPS
    Factors,            \* reserve factors the admin sets, the first one included
    Caps,               \* supply and borrow caps the admin sets; 0 is no cap
    PREMIUM_BPS,        \* FLASH_LOAN_PREMIUM_BPS
    MaxCalls            \* bounds on the calls that change something, of users and admins

ASSUME LendConstants ==
    /\ IsFiniteSet(Users) /\ IsFiniteSet(Assets) /\ Treasury \notin Users
    /\ Amounts \subseteq Nat /\ Caps \subseteq Nat
    /\ MaxCalls \in [{"user", "admin"} -> Nat]
    /\ Prices \subseteq Nat /\ InitialPrice \in [Assets -> Prices]
    /\ Threshold \in 0..10000 /\ Bonus \in Nat /\ Bonus >= 10000
    /\ Factors \subseteq 0..10000 /\ Factors # {} /\ PREMIUM_BPS \in Nat
    /\ \A f \in Factors : (f * RAY) % 10000 = 0    \* the code's RAY is 10^27

Holders == Users \cup {Treasury}

VARIABLES
    reserve,       \* asset -> ReserveData
    gToken,        \* asset -> holder -> scaled balance
    gSupply,       \* asset -> _totalScaledSupply of the gToken
    debtToken,     \* asset -> user -> scaled debt
    debtSupply,    \* asset -> _totalScaledSupply of the debt token
    cash,          \* asset -> underlying held by the gToken
    price,
    calls,         \* calls so far that changed something
    rated,         \* history: asset -> the deposits its rates were set for
    unbacked       \* history: asset -> the most its interest and its debts have cost
                   \* the pool, in units of 1/RAY of the underlying

tokenVars == <<gToken, gSupply, debtToken, debtSupply, cash>>
lendVars == <<reserve, tokenVars, price>>
history == <<rated, unbacked>>

ReserveData ==
    [isActive : BOOLEAN, borrowingEnabled : BOOLEAN, factor : Factors,
     supplyCap : Nat, borrowCap : Nat, liquidityIndex : Nat, borrowIndex : Nat,
     borrowRate : Nat, supplyRate : Nat, lastUpdate : Nat, accruedToTreasury : Nat]

LendTypeOK ==
    /\ now \in Nat
    /\ reserve \in [Assets -> ReserveData]
    /\ gToken \in [Assets -> [Holders -> Nat]] /\ gSupply \in [Assets -> Nat]
    /\ debtToken \in [Assets -> [Users -> Nat]] /\ debtSupply \in [Assets -> Nat]
    /\ cash \in [Assets -> Nat]
    /\ price \in [Assets -> Prices]
    /\ calls \in [{"user", "admin"} -> Nat]
    /\ rated \in [Assets -> Nat] /\ unbacked \in [Assets -> Nat]

LendInit ==
    /\ now = 0
    /\ \E f \in Factors : reserve = [a \in Assets |->
          [isActive |-> TRUE, borrowingEnabled |-> TRUE, factor |-> f, supplyCap |-> 0,
           borrowCap |-> 0, liquidityIndex |-> RAY, borrowIndex |-> RAY, borrowRate |-> 0,
           supplyRate |-> 0, lastUpdate |-> 0, accruedToTreasury |-> 0]]
    /\ gToken = [a \in Assets |-> [h \in Holders |-> 0]]
    /\ gSupply = [a \in Assets |-> 0]
    /\ debtToken = [a \in Assets |-> [u \in Users |-> 0]]
    /\ debtSupply = [a \in Assets |-> 0]
    /\ cash = [a \in Assets |-> 0]
    /\ price = InitialPrice
    /\ calls = [kind \in {"user", "admin"} |-> 0]
    /\ rated = [a \in Assets |-> 0] /\ unbacked = [a \in Assets |-> 0]

-----------------------------------------------------------------------------
(* Interest.                                                               *)

Grown(index, rate, time) == index + (index * rate * time) \div RAY

(* getLiquidityIndex and getBorrowIndex: with the interest not yet booked. *)
LiquidityIndex(a) ==
    IF ~reserve[a].isActive THEN RAY
    ELSE Grown(reserve[a].liquidityIndex, reserve[a].supplyRate, now - reserve[a].lastUpdate)

BorrowIndex(a) ==
    IF ~reserve[a].isActive THEN RAY
    ELSE Grown(reserve[a].borrowIndex, reserve[a].borrowRate, now - reserve[a].lastUpdate)

Unscaled(scaled, index) == (scaled * index) \div RAY
ScaledDown(amount, index) == (amount * RAY) \div index
ScaledUp(amount, index) == (amount * RAY + index - 1) \div index

(* _updateState: the reserve with the interest since the last update.      *)
Updated(a) ==
    LET r == reserve[a]
        time == now - r.lastUpdate
        interest == (Unscaled(debtSupply[a], r.borrowIndex) * r.borrowRate * time) \div RAY
    IN  IF ~r.isActive \/ time = 0 THEN r
        ELSE IF Unscaled(debtSupply[a], r.borrowIndex) = 0 THEN [r EXCEPT !.lastUpdate = now]
        ELSE [r EXCEPT !.lastUpdate = now,
                       !.borrowIndex = Grown(@, r.borrowRate, time),
                       !.liquidityIndex = Grown(@, r.supplyRate, time),
                       !.accruedToTreasury = @ + (interest * r.factor) \div 10000]

(* What booking that interest costs the pool at most: the index of the debts *)
(* is rounded down, under one unit for each that is owed, and the rate of   *)
(* the suppliers is also paid on what their deposits have grown by since it *)
(* was set, and on the fraction of a unit by which they are rounded down.   *)
BookingCost(a) ==
    LET r == reserve[a]
        time == now - r.lastUpdate
        growth == Unscaled(gSupply[a], r.liquidityIndex) - rated[a]
    IN  IF ~r.isActive \/ time = 0 \/ Unscaled(debtSupply[a], r.borrowIndex) = 0 THEN 0
        ELSE debtSupply[a] + r.supplyRate * time * (growth + 1)

Unbacked(a) == unbacked[a] + BookingCost(a)

(* Mutant: the whole of the interest goes to the suppliers. *)
NoFactor(r, deposits, borrows) ==
    LET utilization == Utilization(Unscaled(deposits, r.liquidityIndex),
                                   Unscaled(borrows, r.borrowIndex))
    IN  [r EXCEPT !.borrowRate = BorrowRate(utilization),
                  !.supplyRate = SupplyRate(utilization, 0)]

(* _updateRates, for these scaled supplies. *)
WithRates(r, deposits, borrows) ==
    LET utilization == Utilization(Unscaled(deposits, r.liquidityIndex),
                                   Unscaled(borrows, r.borrowIndex))
    IN  [r EXCEPT !.borrowRate = BorrowRate(utilization),
                  !.supplyRate = SupplyRate(utilization, r.factor)]

(* A call leaves the reserves it touched with up-to-date indexes and rates. *)
(* The histories: a debt that is minted or burnt is rounded by under one    *)
(* scaled unit, which is worth the borrow index.                           *)
Refresh(touched) ==
    /\ reserve' = [a \in Assets |->
          IF a \in touched THEN WithRates(Updated(a), gSupply'[a], debtSupply'[a]) ELSE reserve[a]]
    /\ rated' = [a \in Assets |->
          IF a \in touched THEN Unscaled(gSupply'[a], Updated(a).liquidityIndex) ELSE rated[a]]
    /\ unbacked' = [a \in Assets |->
          IF a \in touched
          THEN Unbacked(a) + IF debtSupply'[a] = debtSupply[a] THEN 0 ELSE Updated(a).borrowIndex
          ELSE unbacked[a]]

-----------------------------------------------------------------------------
(* Health.  Reserves that are inactive or without a price count neither as  *)
(* collateral nor as debt.                                                 *)

Counted(a) == reserve[a].isActive /\ price[a] > 0

CollateralValue(u, a) ==
    IF Counted(a) THEN (Unscaled(gToken[a][u], LiquidityIndex(a)) * price[a] * Threshold) \div 10000
    ELSE 0

DebtValue(u, a) ==
    IF Counted(a) THEN Unscaled(debtToken[a][u], BorrowIndex(a)) * price[a] ELSE 0

Collateral(u) == SumFunctionOnSet([a \in Assets |-> CollateralValue(u, a)], Assets)
Debt(u) == SumFunctionOnSet([a \in Assets |-> DebtValue(u, a)], Assets)

(* The health factor, at least percent/100. *)
HealthAtLeast(u, percent) ==
    Debt(u) = 0 \/ (Collateral(u) * RAY) \div Debt(u) >= (RAY * percent) \div 100

Healthy(u) == HealthAtLeast(u, 100)

-----------------------------------------------------------------------------
(* Transfers of the three tokens.  What callers hold of the underlying is   *)
(* theirs to bring: the model keeps the pool's side.                       *)

PayIn(a, amount) == cash' = [cash EXCEPT ![a] = @ + amount]

PayOut(a, amount) ==
    /\ cash[a] >= amount
    /\ cash' = [cash EXCEPT ![a] = @ - amount]

MintG(h, a, amount) ==
    LET scaled == ScaledDown(amount, Updated(a).liquidityIndex) IN
    /\ scaled > 0
    /\ gToken' = [gToken EXCEPT ![a][h] = @ + scaled]
    /\ gSupply' = [gSupply EXCEPT ![a] = @ + scaled]

BurnG(h, a, amount) ==
    LET scaled == ScaledUp(amount, Updated(a).liquidityIndex) IN
    /\ gToken[a][h] >= scaled
    /\ gToken' = [gToken EXCEPT ![a][h] = @ - scaled]
    /\ gSupply' = [gSupply EXCEPT ![a] = @ - scaled]

MintDebt(u, a, amount) ==
    LET scaled == ScaledDown(amount, Updated(a).borrowIndex) IN
    /\ scaled > 0
    /\ debtToken' = [debtToken EXCEPT ![a][u] = @ + scaled]
    /\ debtSupply' = [debtSupply EXCEPT ![a] = @ + scaled]

(* Mutant: the borrower's part is rounded up and the total's down. *)
BurnUneven(u, a, amount) ==
    /\ debtToken' = [debtToken EXCEPT ![a][u] = @ - ScaledUp(amount, Updated(a).borrowIndex)]
    /\ debtSupply' = [debtSupply EXCEPT ![a] = @ - ScaledDown(amount, Updated(a).borrowIndex)]

BurnDebt(u, a, amount) ==
    LET asked == ScaledUp(amount, Updated(a).borrowIndex)
        scaled == IF asked > debtToken[a][u] THEN debtToken[a][u] ELSE asked
    IN  /\ debtToken' = [debtToken EXCEPT ![a][u] = @ - scaled]
        /\ debtSupply' = [debtSupply EXCEPT ![a] = @ - scaled]

-----------------------------------------------------------------------------
(* Mutant: health is checked before the balances move. *)
CheckedBefore(u) == Healthy(u)

CheckedAfter(u) == Healthy(u)'

WithinCap(total, amount, cap) == cap = 0 \/ total + amount <= cap

Supply(onBehalfOf, a, amount) ==
    /\ reserve[a].isActive
    /\ WithinCap(Unscaled(gSupply[a], Updated(a).liquidityIndex), amount, reserve[a].supplyCap)
    /\ PayIn(a, amount)
    /\ MintG(onBehalfOf, a, amount)
    /\ UNCHANGED <<debtToken, debtSupply, price>>
    /\ Refresh({a})

(* The amount is one the user names, or the whole balance; the underlying   *)
(* goes to whom the caller says.                                           *)
WithdrawSupply(u, a, amount) ==
    /\ reserve[a].isActive
    /\ amount > 0 /\ amount <= Unscaled(gToken[a][u], Updated(a).liquidityIndex)
    /\ BurnG(u, a, amount)
    /\ PayOut(a, amount)
    /\ UNCHANGED <<debtToken, debtSupply, price>>
    /\ Refresh({a})
    /\ CheckedAfter(u)

Borrow(u, a, amount) ==
    /\ reserve[a].isActive /\ reserve[a].borrowingEnabled
    /\ WithinCap(Unscaled(debtSupply[a], Updated(a).borrowIndex), amount, reserve[a].borrowCap)
    /\ MintDebt(u, a, amount)
    /\ PayOut(a, amount)
    /\ UNCHANGED <<gToken, gSupply, price>>
    /\ Refresh({a})
    /\ CheckedAfter(u)

(* An amount above the debt repays all of it. *)
Repay(u, a, amount) ==
    LET debt == Unscaled(debtToken[a][u], Updated(a).borrowIndex)
        paid == IF amount > debt THEN debt ELSE amount
    IN  /\ reserve[a].isActive
        /\ PayIn(a, paid)
        /\ BurnDebt(u, a, paid)
        /\ UNCHANGED <<gToken, gSupply, price>>
        /\ Refresh({a})

LesserOf(x, y) == IF x < y THEN x ELSE y

(* _calcCollateralToSeize. *)
ToSeize(covered, debtAsset, collateralAsset) ==
    (((covered * price[debtAsset]) * Bonus) \div 10000) \div price[collateralAsset]

(* liquidate, which asks of neither reserve whether it is active: half of   *)
(* the debt above a health factor of 0.95, all of it below.                *)
Liquidate(u, c, d, amount) ==
    LET debt == Unscaled(debtToken[d][u], Updated(d).borrowIndex)
        covered == LesserOf(amount, IF HealthAtLeast(u, 95) THEN debt \div 2 ELSE debt)
        seized == LesserOf(ToSeize(covered, d, c), Unscaled(gToken[c][u], Updated(c).liquidityIndex))
    IN  /\ ~Healthy(u)
        /\ covered > 0
        /\ price[c] > 0 /\ price[d] > 0
        /\ cash[c] + (IF c = d THEN covered ELSE 0) >= seized
        /\ cash' = [a \in Assets |-> cash[a] + (IF a = d THEN covered ELSE 0)
                                            - (IF a = c THEN seized ELSE 0)]
        /\ BurnDebt(u, d, covered)
        /\ BurnG(u, c, seized)
        /\ UNCHANGED price
        /\ Refresh({c, d})

(* flashLoan, by a receiver that calls back nothing of the pool and repays: *)
(* a third of the premium for the treasury, the rest raises the index.  The *)
(* interest is not brought up to date and the rates are not set.           *)
FlashLoan(a, amount) ==
    LET premium == (amount * PREMIUM_BPS) \div 10000
        deposits == Unscaled(gSupply[a], reserve[a].liquidityIndex)
        share == premium - premium \div 3
    IN  /\ reserve[a].isActive
        /\ cash[a] >= amount
        /\ PayIn(a, premium)
        /\ reserve' = [reserve EXCEPT
              ![a].accruedToTreasury = @ + premium \div 3,
              ![a].liquidityIndex = @ + IF deposits > 0 THEN (share * RAY) \div deposits ELSE 0]
        /\ UNCHANGED <<gToken, gSupply, debtToken, debtSupply, price, history>>

(* mintToTreasury: the interest is brought up to date, the rates are not.  *)
MintToTreasury(a) ==
    LET r == Updated(a)
        scaled == ScaledDown(r.accruedToTreasury, r.liquidityIndex)
    IN  /\ reserve' = [reserve EXCEPT ![a] = [r EXCEPT !.accruedToTreasury = 0]]
        /\ gToken' = [gToken EXCEPT ![a][Treasury] = @ + scaled]
        /\ gSupply' = [gSupply EXCEPT ![a] = @ + scaled]
        /\ unbacked' = [unbacked EXCEPT ![a] = Unbacked(a)]
        /\ UNCHANGED <<debtToken, debtSupply, cash, price, rated>>

(* transfer of gTokens, which asks nothing about the health of the sender. *)
TransferG(u, a, to, amount) ==
    LET scaled == ScaledDown(amount, LiquidityIndex(a))
        taken == [gToken EXCEPT ![a][u] = @ - scaled]
    IN  /\ gToken[a][u] >= scaled
        /\ gToken' = [taken EXCEPT ![a][to] = @ + scaled]
        /\ UNCHANGED <<reserve, gSupply, debtToken, debtSupply, cash, price, history>>

-----------------------------------------------------------------------------
SetReserveActive(a, active) ==
    /\ reserve' = [reserve EXCEPT ![a].isActive = active]
    /\ UNCHANGED <<tokenVars, price, history>>

SetBorrowingEnabled(a, enabled) ==
    /\ reserve' = [reserve EXCEPT ![a].borrowingEnabled = enabled]
    /\ UNCHANGED <<tokenVars, price, history>>

SetReserveFactor(a, factor) ==
    /\ reserve' = [reserve EXCEPT ![a] =
          WithRates([Updated(a) EXCEPT !.factor = factor], gSupply[a], debtSupply[a])]
    /\ rated' = [rated EXCEPT ![a] = Unscaled(gSupply[a], Updated(a).liquidityIndex)]
    /\ unbacked' = [unbacked EXCEPT ![a] = Unbacked(a)]
    /\ UNCHANGED <<tokenVars, price>>

SetCaps(a, supplyCap, borrowCap) ==
    /\ reserve' = [reserve EXCEPT ![a].supplyCap = supplyCap, ![a].borrowCap = borrowCap]
    /\ UNCHANGED <<tokenVars, price, history>>

SetAssetPrice(a, p) ==
    /\ price' = [price EXCEPT ![a] = p]
    /\ UNCHANGED <<reserve, tokenVars, history>>

HolderStep(u, a) ==
    \/ \E amount \in Amounts : Supply(u, a, amount) \/ Borrow(u, a, amount) \/ Repay(u, a, amount)
    \/ \E amount \in Amounts \cup {Unscaled(gToken[a][u], Updated(a).liquidityIndex)} :
          WithdrawSupply(u, a, amount)
    \/ \E amount \in Amounts, d \in Assets : Liquidate(u, a, d, amount)
    \/ \E amount \in Amounts, v \in Users : TransferG(u, a, v, amount)

AnyonesStep(a) ==
    \/ \E amount \in Amounts : FlashLoan(a, amount)
    \/ MintToTreasury(a)

AdminStep(a) ==
    \/ \E b \in BOOLEAN : SetReserveActive(a, b) \/ SetBorrowingEnabled(a, b)
    \/ \E f \in Factors : SetReserveFactor(a, f)
    \/ \E supplyCap, borrowCap \in Caps : SetCaps(a, supplyCap, borrowCap)
    \/ \E p \in Prices : SetAssetPrice(a, p)

HasRoom(kind) == calls[kind] < MaxCalls[kind]

Tally(kind) ==
    calls' = IF UNCHANGED lendVars THEN calls ELSE [calls EXCEPT ![kind] = @ + 1]

Call(kind, a) ==
    /\ UNCHANGED now
    /\ HasRoom(kind)
    /\ CASE kind = "admin" -> AdminStep(a)
         [] kind = "user" -> AnyonesStep(a) \/ \E u \in Users : HolderStep(u, a)
    /\ Tally(kind)

LendNext ==
    \/ \E a \in Assets : Call("user", a) \/ Call("admin", a)
    \/ Tick /\ UNCHANGED <<lendVars, calls, history>>

LendSpec == LendInit /\ [][LendNext]_<<now, lendVars, calls, history>>

-----------------------------------------------------------------------------
(* The scaled supplies, from which the rates and the caps are computed, are *)
(* what the holders and the borrowers have, although burns round up, mints  *)
(* round down and a debt burn is limited to what is owed (GoodLendToken,    *)
(* DebtToken).                                                             *)
SuppliesAreSums ==
    \A a \in Assets :
        /\ gSupply[a] = SumFunctionOnSet(gToken[a], Holders)
        /\ debtSupply[a] = SumFunctionOnSet(debtToken[a], Users)

(* Suppliers and treasury are owed no more than what the pool holds and     *)
(* what the borrowers owe, at every time and whatever the admin switched,   *)
(* but for the rounding of debts and the interest on deposits that the      *)
(* rates were not set for: what a flash loan or mintToTreasury adds earns   *)
(* until the next call sets the rates, and no borrower pays for it          *)
(* (_updateState, _updateRates, flashLoan and the tokens).                  *)
Solvent ==
    \A a \in Assets :
        gSupply[a] * Updated(a).liquidityIndex + RAY * Updated(a).accruedToTreasury
            <= RAY * cash[a] + debtSupply[a] * Updated(a).borrowIndex + Unbacked(a)

(* A healthy account becomes liquidatable only by time, a price, a switch   *)
(* of the admin, or by giving its gTokens away: never by its own borrowing  *)
(* or withdrawing, and never by what others do.                            *)
HealthLostOnlyToMarket ==
    [][\/ now' # now
       \/ price' # price
       \/ \E a \in Assets : reserve'[a].isActive # reserve[a].isActive
       \/ \A u \in Users : Healthy(u) =>
             \/ Healthy(u)'
             \/ gSupply' = gSupply /\ \E b \in Assets : gToken'[b][u] < gToken[b][u]]_<<now, lendVars, calls, history>>
===============================================================================
