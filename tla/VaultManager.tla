---------------------------- MODULE VaultManager ----------------------------
(***************************************************************************)
(* The CDP engine of GoodStable: src/src/stable/VaultManager.sol with the  *)
(* gUSD ledger (gUSD.sol) and the collateral configuration it reads        *)
(* (CollateralRegistry.sol).  A vault locks collateral and owes            *)
(* normalizedDebt * chi; every operation first drips, i.e. brings chi up   *)
(* to date and mints the fee.  The stability pool appears by what it       *)
(* promises (Backstop): a stock of gUSD that liquidations burn.            *)
(*                                                                         *)
(* One unit of collateral is one raw token unit, prices are gUSD per unit; *)
(* RAY and WAD are small constants, divisions round down.                  *)
(***************************************************************************)
EXTENDS Integers, Functions, FiniteSets

CONSTANTS
    Users,          \* vault owners, liquidators and gUSD holders
    Ilks,           \* collateral types
    RAY,            \* 1.0 for rates
    WAD,            \* 1.0 for ratios
    Rates,          \* stability fee rates per second an admin may set
    Ratios,         \* liquidation ratios an admin may set
    Ceilings,       \* debt ceilings an admin may set
    Prices,         \* prices the oracle may report
    Growth,         \* rate -> elapsed seconds -> _rpow(rate, elapsed)
    MaxTime,        \* bound on the clock
    MaxCollateral,  \* bound on the collateral the contract holds
    MaxSupply       \* bound on the gUSD in circulation

ASSUME VaultConstants ==
    /\ IsFiniteSet(Users)
    /\ RAY \in Nat \ {0}
    /\ WAD \in Nat \ {0}
    /\ Rates \subseteq Nat
    /\ \A r \in Ratios : r \in Nat /\ r >= WAD
    /\ Ceilings \subseteq Nat
    /\ Prices \subseteq Nat
    /\ MaxTime \in Nat /\ MaxCollateral \in Nat /\ MaxSupply \in Nat
    /\ Growth \in [Rates -> [1..MaxTime -> Nat]]

VARIABLES
    now,                  \* block.timestamp
    paused,
    config,               \* ilk -> [active, rate, ratio, ceiling], the registry's entry
    price,                \* ilk -> oracle price
    chi,                  \* ilk -> rate accumulator, 0 before the first drip
    lastDrip,             \* ilk -> time of the last drip
    totalNormalizedDebt,  \* ilk -> normalized debt of all vaults
    ilkDebt,              \* ilk -> the code's running total of actual debt
    collateral,           \* ilk -> owner -> collateral of the vault
    normalizedDebt,       \* ilk -> owner -> debt of the vault / chi
    held,                 \* ilk -> token.balanceOf(VaultManager)
    balance,              \* gUSD balances of the users
    feeSink,              \* gUSD sent to the fee splitter
    poolGUSD,             \* gUSD in the stability pool
    totalSupply           \* gUSD.totalSupply

envVars == <<now, paused, config, price>>
accVars == <<chi, lastDrip>>
debtVars == <<totalNormalizedDebt, ilkDebt, normalizedDebt>>
collVars == <<collateral, held>>
vars == <<envVars, accVars, debtVars, collVars, balance, feeSink, poolGUSD, totalSupply>>

Configs == [active : BOOLEAN, rate : Rates, ratio : Ratios, ceiling : Ceilings]

TypeOK ==
    /\ now \in Nat
    /\ paused \in BOOLEAN
    /\ config \in [Ilks -> Configs]
    /\ price \in [Ilks -> Prices]
    /\ chi \in [Ilks -> Nat]
    /\ lastDrip \in [Ilks -> Nat]
    /\ totalNormalizedDebt \in [Ilks -> Nat]
    /\ ilkDebt \in [Ilks -> Nat]
    /\ collateral \in [Ilks -> [Users -> Nat]]
    /\ normalizedDebt \in [Ilks -> [Users -> Nat]]
    /\ held \in [Ilks -> Nat]
    /\ balance \in [Users -> Nat]
    /\ feeSink \in Nat
    /\ poolGUSD \in Nat
    /\ totalSupply \in Nat

Init ==
    /\ now = 0
    /\ paused = FALSE
    /\ config \in [Ilks -> {c \in Configs : c.active}]
    /\ price \in [Ilks -> Prices]
    /\ chi = [i \in Ilks |-> 0]
    /\ lastDrip = [i \in Ilks |-> 0]
    /\ totalNormalizedDebt = [i \in Ilks |-> 0]
    /\ ilkDebt = [i \in Ilks |-> 0]
    /\ collateral = [i \in Ilks |-> [u \in Users |-> 0]]
    /\ normalizedDebt = [i \in Ilks |-> [u \in Users |-> 0]]
    /\ held = [i \in Ilks |-> 0]
    /\ balance = [u \in Users |-> 0]
    /\ feeSink = 0
    /\ poolGUSD = 0
    /\ totalSupply = 0

-----------------------------------------------------------------------------
(* drip: what the accumulator and the fee become.  A growth of 1.0 or less *)
(* leaves chi alone.                                                       *)

Elapsed(i) == now - lastDrip[i]

Grown(i) ==
    IF Elapsed(i) = 0 THEN chi[i]
    ELSE (chi[i] * Growth[config[i].rate][Elapsed(i)]) \div RAY

NewChi(i) ==
    IF chi[i] = 0 THEN RAY
    ELSE IF Grown(i) > chi[i] THEN Grown(i) ELSE chi[i]

(* Mutant: the fee is rounded against the borrowers. *)
FeeRoundedUp(i) ==
    IF chi[i] = 0 THEN 0
    ELSE (totalNormalizedDebt[i] * (NewChi(i) - chi[i]) + RAY - 1) \div RAY

Fee(i) == IF chi[i] = 0 THEN 0
          ELSE (totalNormalizedDebt[i] * (NewChi(i) - chi[i])) \div RAY

Accrue(i) ==
    /\ chi' = [chi EXCEPT ![i] = NewChi(i)]
    /\ lastDrip' = [lastDrip EXCEPT ![i] = now]
    /\ feeSink' = feeSink + Fee(i)

Owed(n, c) == (n * c) \div RAY

Debt(i, u) == Owed(normalizedDebt[i][u], NewChi(i))

(* _isHealthy of a vault with debt n and collateral c at the dripped chi.  *)
Healthy(i, n, c) ==
    LET required == (Owed(n, NewChi(i)) * config[i].ratio) \div WAD
    IN  n = 0 \/ required = 0 \/ c * price[i] >= required

-----------------------------------------------------------------------------
(* openVault and the public drip. *)
Drip(i) ==
    /\ Accrue(i)
    /\ ilkDebt' = [ilkDebt EXCEPT ![i] = @ + Fee(i)]
    /\ totalSupply' = totalSupply + Fee(i)
    /\ UNCHANGED <<envVars, totalNormalizedDebt, normalizedDebt, collVars, balance, poolGUSD>>

DepositCollateral(i, u, amount) ==
    /\ ~paused
    /\ amount > 0
    /\ config[i].active
    /\ held[i] + amount <= MaxCollateral
    /\ Accrue(i)
    /\ ilkDebt' = [ilkDebt EXCEPT ![i] = @ + Fee(i)]
    /\ totalSupply' = totalSupply + Fee(i)
    /\ collateral' = [collateral EXCEPT ![i][u] = @ + amount]
    /\ held' = [held EXCEPT ![i] = @ + amount]
    /\ UNCHANGED <<envVars, totalNormalizedDebt, normalizedDebt, balance, poolGUSD>>

(* Mutant: the health check looks at the collateral before the withdrawal. *)
HealthyBefore(i, u, amount) == Healthy(i, normalizedDebt[i][u], collateral[i][u])

HealthyAfter(i, u, amount) == Healthy(i, normalizedDebt[i][u], collateral[i][u] - amount)

WithdrawCollateral(i, u, amount) ==
    /\ ~paused
    /\ 0 < amount /\ amount <= collateral[i][u]
    /\ HealthyAfter(i, u, amount)
    /\ held[i] >= amount
    /\ Accrue(i)
    /\ ilkDebt' = [ilkDebt EXCEPT ![i] = @ + Fee(i)]
    /\ totalSupply' = totalSupply + Fee(i)
    /\ collateral' = [collateral EXCEPT ![i][u] = @ - amount]
    /\ held' = [held EXCEPT ![i] = @ - amount]
    /\ UNCHANGED <<envVars, totalNormalizedDebt, normalizedDebt, balance, poolGUSD>>

(* Mutant: a vault's former debt stays in the total. *)
SetVaultDebtAdding(i, u, n) ==
    /\ normalizedDebt' = [normalizedDebt EXCEPT ![i][u] = n]
    /\ totalNormalizedDebt' = [totalNormalizedDebt EXCEPT ![i] = @ + n]
    /\ ilkDebt' = [ilkDebt EXCEPT ![i] = Owed(totalNormalizedDebt[i] + n, NewChi(i))]

(* Replaces a vault's normalized debt and everything derived from it.      *)
SetVaultDebt(i, u, n) ==
    LET total == totalNormalizedDebt[i] - normalizedDebt[i][u] + n
    IN  /\ normalizedDebt' = [normalizedDebt EXCEPT ![i][u] = n]
        /\ totalNormalizedDebt' = [totalNormalizedDebt EXCEPT ![i] = total]
        /\ ilkDebt' = [ilkDebt EXCEPT ![i] = Owed(total, NewChi(i))]

MintGUSD(i, u, amount) ==
    LET minted == (amount * RAY) \div NewChi(i)
        n == normalizedDebt[i][u] + minted
    IN  /\ ~paused
        /\ amount > 0
        /\ config[i].active
        /\ Owed(totalNormalizedDebt[i] + minted, NewChi(i)) <= config[i].ceiling
        /\ Healthy(i, n, collateral[i][u])
        /\ totalSupply + Fee(i) + amount <= MaxSupply
        /\ Accrue(i)
        /\ SetVaultDebt(i, u, n)
        /\ balance' = [balance EXCEPT ![u] = @ + amount]
        /\ totalSupply' = totalSupply + Fee(i) + amount
        /\ UNCHANGED <<envVars, collVars, poolGUSD>>

(* amount is clamped to the debt first, so asked may be any large number.  *)
(* Works while paused.                                                     *)
RepayGUSD(i, u, asked) ==
    LET amount == IF asked > Debt(i, u) THEN Debt(i, u) ELSE asked
        repaid == (amount * RAY) \div NewChi(i)
        n == IF repaid > normalizedDebt[i][u] THEN 0 ELSE normalizedDebt[i][u] - repaid
    IN  /\ amount > 0
        /\ balance[u] >= amount
        /\ Accrue(i)
        /\ SetVaultDebt(i, u, n)
        /\ balance' = [balance EXCEPT ![u] = @ - amount]
        /\ totalSupply' = totalSupply + Fee(i) - amount
        /\ UNCHANGED <<envVars, collVars, poolGUSD>>

CloseVault(i, u) ==
    /\ ~paused
    /\ balance[u] >= Debt(i, u)
    /\ held[i] >= collateral[i][u]
    /\ Accrue(i)
    /\ IF Debt(i, u) > 0
       THEN SetVaultDebt(i, u, 0)
       ELSE /\ ilkDebt' = [ilkDebt EXCEPT ![i] = @ + Fee(i)]
            /\ UNCHANGED <<totalNormalizedDebt, normalizedDebt>>
    /\ balance' = [balance EXCEPT ![u] = @ - Debt(i, u)]
    /\ totalSupply' = totalSupply + Fee(i) - Debt(i, u)
    /\ collateral' = [collateral EXCEPT ![i][u] = 0]
    /\ held' = [held EXCEPT ![i] = @ - collateral[i][u]]
    /\ UNCHANGED <<envVars, poolGUSD>>

-----------------------------------------------------------------------------
(* liquidate: the whole vault is wiped.  The pool absorbs what it can and  *)
(* takes the same share of the collateral; the liquidator burns the rest.  *)

PoolDebt(debt) == IF debt < poolGUSD THEN debt ELSE poolGUSD

PoolCollateral(i, u, debt) == (collateral[i][u] * PoolDebt(debt)) \div debt

LiquidatorCollateral(i, u, debt) == collateral[i][u] - PoolCollateral(i, u, debt)

(* _offsetWithStabilityPool reports PoolDebt as absorbed, but calls offset *)
(* only when the collateral share is positive.                             *)
PoolBurn(i, u, debt) == IF PoolCollateral(i, u, debt) > 0 THEN PoolDebt(debt) ELSE 0

Liquidate(i, owner, liquidator) ==
    LET debt == Debt(i, owner)
        remaining == debt - PoolDebt(debt)
    IN  /\ ~paused
        /\ normalizedDebt[i][owner] > 0
        /\ ~Healthy(i, normalizedDebt[i][owner], collateral[i][owner])
        /\ balance[liquidator] >= remaining
        /\ held[i] >= collateral[i][owner]
        /\ Accrue(i)
        /\ SetVaultDebt(i, owner, 0)
        /\ collateral' = [collateral EXCEPT ![i][owner] = 0]
        /\ held' = [held EXCEPT ![i] = @ - PoolCollateral(i, owner, debt)
                                         - LiquidatorCollateral(i, owner, debt)]
        /\ balance' = [balance EXCEPT ![liquidator] = @ - remaining]
        /\ poolGUSD' = poolGUSD - PoolBurn(i, owner, debt)
        /\ totalSupply' = totalSupply + Fee(i) - PoolBurn(i, owner, debt) - remaining
        /\ UNCHANGED envVars

-----------------------------------------------------------------------------
(* gUSD moves between holders, and in and out of the stability pool.       *)

Transfer(u, v, amount) ==
    /\ 0 < amount /\ amount <= balance[u]
    /\ u # v
    /\ balance' = [balance EXCEPT ![u] = @ - amount, ![v] = @ + amount]
    /\ UNCHANGED <<envVars, accVars, debtVars, collVars, feeSink, poolGUSD, totalSupply>>

ProvideToPool(u, amount) ==
    /\ 0 < amount /\ amount <= balance[u]
    /\ balance' = [balance EXCEPT ![u] = @ - amount]
    /\ poolGUSD' = poolGUSD + amount
    /\ UNCHANGED <<envVars, accVars, debtVars, collVars, feeSink, totalSupply>>

TakeFromPool(u, amount) ==
    /\ 0 < amount /\ amount <= poolGUSD
    /\ balance' = [balance EXCEPT ![u] = @ + amount]
    /\ poolGUSD' = poolGUSD - amount
    /\ UNCHANGED <<envVars, accVars, debtVars, collVars, feeSink, totalSupply>>

(* Time, the oracle and the admin. *)

ledgerVars == <<accVars, debtVars, collVars, balance, feeSink, poolGUSD, totalSupply>>

Tick ==
    /\ now < MaxTime
    /\ now' = now + 1
    /\ UNCHANGED <<paused, config, price, ledgerVars>>

SetPrice(i, p) ==
    /\ price' = [price EXCEPT ![i] = p]
    /\ UNCHANGED <<now, paused, config, ledgerVars>>

SetPaused(b) ==
    /\ paused' = b
    /\ UNCHANGED <<now, config, price, ledgerVars>>

(* updateIlk and setIlkActive.  The registry does not drip first. *)
SetConfig(i, c) ==
    /\ config' = [config EXCEPT ![i] = c]
    /\ UNCHANGED <<now, paused, price, ledgerVars>>

-----------------------------------------------------------------------------
VaultStep(i, u) ==
    \/ \E amount \in 1..MaxCollateral : DepositCollateral(i, u, amount)
    \/ \E amount \in 1..collateral[i][u] : WithdrawCollateral(i, u, amount)
    \/ \E amount \in 1..MaxSupply : MintGUSD(i, u, amount)
    \/ \E asked \in 1..MaxSupply : RepayGUSD(i, u, asked)
    \/ CloseVault(i, u)
    \/ \E owner \in Users : Liquidate(i, owner, u)

GUSDStep(u) ==
    \E amount \in 1..MaxSupply :
        \/ \E v \in Users : Transfer(u, v, amount)
        \/ ProvideToPool(u, amount)
        \/ TakeFromPool(u, amount)

EnvStep ==
    \/ Tick
    \/ \E b \in BOOLEAN : SetPaused(b)
    \/ \E i \in Ilks :
          \/ \E p \in Prices : SetPrice(i, p)
          \/ \E c \in Configs : SetConfig(i, c)

Next ==
    \/ \E i \in Ilks : Drip(i)
    \/ \E i \in Ilks, u \in Users : VaultStep(i, u)
    \/ \E u \in Users : GUSDStep(u)
    \/ EnvStep

Spec == Init /\ [][Next]_vars

-----------------------------------------------------------------------------
(* The clock never runs behind a drip, and an accumulator that was started *)
(* never falls below 1.0: what keeps _rpow's exponent and the division by  *)
(* chi in range.                                                           *)
AccumulatorsSound ==
    /\ now <= MaxTime
    /\ \A i \in Ilks : lastDrip[i] <= now /\ (chi[i] = 0 \/ chi[i] >= RAY)

(* The per-ilk total the fees and the debt ceiling are computed from is the *)
(* sum of the vaults (mintGUSD, repayGUSD, closeVault, liquidate).         *)
TotalIsSum ==
    \A i \in Ilks : totalNormalizedDebt[i] = SumFunctionOnSet(normalizedDebt[i], Users)

(* The contract holds exactly the collateral its vaults record.            *)
CollateralHeld ==
    \A i \in Ilks : held[i] = SumFunctionOnSet(collateral[i], Users)

(* No gUSD appears or disappears besides what mint and burn record.        *)
SupplyIsSum ==
    totalSupply = SumFunctionOnSet(balance, Users) + feeSink + poolGUSD

(* The debt, collateral and supply ledgers, each maintained by increments   *)
(* in many operations, never drift from what they summarise.               *)
LedgersAgree == TotalIsSum /\ CollateralHeld /\ SupplyIsSum

(* ilkDebt, advanced by rounded fees between resets, never runs ahead of   *)
(* the debt the accumulator implies (drip against mint and repay).         *)
IlkDebtNotAhead ==
    \A i \in Ilks : ilkDebt[i] <= Owed(totalNormalizedDebt[i], chi[i])

(* An empty vault owes nothing, however it was emptied: withdrawal, closing *)
(* or liquidation, with any rounding of the debt (closeVault skips the     *)
(* repayment when the debt rounds to zero).                                *)
NoUnsecuredDebt ==
    \A i \in Ilks, u \in Users : collateral[i][u] = 0 => normalizedDebt[i][u] = 0

(* A healthy vault turns unhealthy only through the price, the passing of  *)
(* time or an admin: no vault operation, its owner's or another's, and no  *)
(* drip makes it liquidatable.                                             *)
HealthLostOnlyToMarket ==
    [][UNCHANGED envVars =>
          \A i \in Ilks, u \in Users :
              Healthy(i, normalizedDebt[i][u], collateral[i][u])
              => Healthy(i, normalizedDebt[i][u], collateral[i][u])']_vars

=============================================================================
