--------------------------- MODULE StabilityPool ---------------------------
(***************************************************************************)
(* The liquidation backstop of GoodStable (src/src/stable/StabilityPool.sol). *)
(* Depositors lend gUSD; the vault manager calls offset, which burns pool  *)
(* gUSD against bad debt and brings the seized collateral in.  Deposits    *)
(* are rescaled lazily: the pool keeps one scaleIndex, each depositor the  *)
(* value it had at its last operation, and a full drain opens a new epoch. *)
(*                                                                         *)
(* The fixed point unit 1e18 is the constant PRECISION; every division     *)
(* rounds down as in the EVM.  A call that reverts is a disabled action.   *)
(* The gUSD and the collateral outside the pool are finite stocks (wallet, *)
(* seized), which is what bounds the state space.                          *)
(***************************************************************************)
EXTENDS Integers, Sequences, Functions, FiniteSets

CONSTANTS
    Depositors,      \* accounts that use the pool
    Ilks,            \* collateral types
    Tokens,          \* collateral token contracts
    NoToken,         \* address(0)
    PRECISION,       \* 1.0 in fixed point
    Endowment,       \* gUSD every depositor starts with
    Seizable,        \* units of each token liquidations can bring in
    Dust             \* units that rounding may cost a stake in one offset

ASSUME PoolConstants ==
    /\ IsFiniteSet(Depositors)
    /\ PRECISION \in Nat \ {0}
    /\ Endowment \in Nat
    /\ Seizable \in Nat
    /\ Dust \in Nat \ {0}
    /\ NoToken \notin Tokens

VARIABLES
    totalDeposits,           \* gUSD the pool accounts for
    deposits,                \* depositor -> deposit at its last operation
    depositScaleSnapshot,    \* depositor -> scaleIndex at its last operation
    depositEpoch,            \* depositor -> drainEpoch at its last deposit
    gainSnapshots,           \* depositor -> ilk -> cumulative gain already settled
    scaleIndex,
    epochBoundaryScaleIndex, \* scaleIndex just before each full drain
    cumulativeGainPerGUSD,   \* ilk -> gain per deposited gUSD
    collateralTokens,        \* ilk -> token, NoToken while not registered
    wallet,                  \* depositor -> gUSD outside the pool
    poolGUSD,                \* gusd.balanceOf(pool)
    poolColl,                \* token -> token.balanceOf(pool)
    seized                   \* token -> collateral liquidations may still bring

poolVars == <<totalDeposits, scaleIndex, epochBoundaryScaleIndex, cumulativeGainPerGUSD>>
userVars == <<deposits, depositScaleSnapshot, depositEpoch>>
vars == <<poolVars, userVars, gainSnapshots, collateralTokens, wallet, poolGUSD, poolColl, seized>>

(* One full drain appends one boundary, so the epoch is their number. *)
drainEpoch == Len(epochBoundaryScaleIndex)

TypeOK ==
    /\ totalDeposits \in Nat
    /\ deposits \in [Depositors -> Nat]
    /\ depositScaleSnapshot \in [Depositors -> Nat]
    /\ depositEpoch \in [Depositors -> Nat]
    /\ \A u \in Depositors : depositEpoch[u] <= drainEpoch
    /\ gainSnapshots \in [Depositors -> [Ilks -> Nat]]
    /\ scaleIndex \in 0..PRECISION
    /\ epochBoundaryScaleIndex \in Seq(0..PRECISION)
    /\ cumulativeGainPerGUSD \in [Ilks -> Nat]
    /\ collateralTokens \in [Ilks -> Tokens \cup {NoToken}]
    /\ wallet \in [Depositors -> Nat]
    /\ poolGUSD \in Nat
    /\ poolColl \in [Tokens -> Nat]
    /\ seized \in [Tokens -> Nat]

-----------------------------------------------------------------------------
(* _settleGains: a zero scale or snapshot stands for PRECISION. *)

OrPrecision(x) == IF x = 0 THEN PRECISION ELSE x

IsStale(u) == depositEpoch[u] < drainEpoch

EffectiveScale(u) ==
    OrPrecision(IF IsStale(u) THEN epochBoundaryScaleIndex[depositEpoch[u] + 1]
                              ELSE scaleIndex)

(* Mutant: the nominal deposit, as before the scale index (GOO-352). *)
NominalDeposit(u) == deposits[u]

SettledDeposit(u) ==
    (deposits[u] * EffectiveScale(u)) \div OrPrecision(depositScaleSnapshot[u])

SettledSnapshot(u) ==
    IF deposits[u] = 0 \/ EffectiveScale(u) = OrPrecision(depositScaleSnapshot[u])
    THEN depositScaleSnapshot[u]
    ELSE EffectiveScale(u)

PendingGain(u, i) ==
    (SettledDeposit(u) * (cumulativeGainPerGUSD[i] - gainSnapshots[u][i])) \div PRECISION

(* Mutant: a drained depositor may reclaim burned gUSD (GOO-361). *)
EpochBlindWithdrawable(u) == SettledDeposit(u)

(* What withdraw would let u take: nothing once its epoch has been drained. *)
Withdrawable(u) == IF IsStale(u) THEN 0 ELSE SettledDeposit(u)

IsRegistered(i) == collateralTokens[i] # NoToken

-----------------------------------------------------------------------------
Init ==
    /\ totalDeposits = 0
    /\ deposits = [u \in Depositors |-> 0]
    /\ depositScaleSnapshot = [u \in Depositors |-> 0]
    /\ depositEpoch = [u \in Depositors |-> 0]
    /\ gainSnapshots = [u \in Depositors |-> [i \in Ilks |-> 0]]
    /\ scaleIndex = PRECISION
    /\ epochBoundaryScaleIndex = << >>
    /\ cumulativeGainPerGUSD = [i \in Ilks |-> 0]
    /\ collateralTokens = [i \in Ilks |-> NoToken]
    /\ wallet = [u \in Depositors |-> Endowment]
    /\ poolGUSD = 0
    /\ poolColl = [t \in Tokens |-> 0]
    /\ seized = [t \in Tokens |-> Seizable]

RegisterCollateralToken(i, t) ==
    /\ collateralTokens' = [collateralTokens EXCEPT ![i] = t]
    /\ UNCHANGED <<poolVars, userVars, gainSnapshots, wallet, poolGUSD, poolColl, seized>>

(* Mutant: a re-entering depositor keeps its old snapshots (GOO-367). *)
OldSnapshots(u) == gainSnapshots[u]

(* The gain snapshots of a depositor that has no stake left restart at the *)
(* current cumulative gain of every registered ilk.                        *)
FreshSnapshots(u) ==
    [i \in Ilks |-> IF IsRegistered(i) THEN cumulativeGainPerGUSD[i] ELSE gainSnapshots[u][i]]

Deposit(u, amount) ==
    /\ amount > 0
    /\ wallet[u] >= amount
    /\ deposits' = [deposits EXCEPT ![u] = Withdrawable(u) + amount]
    /\ gainSnapshots' = [gainSnapshots EXCEPT
            ![u] = IF Withdrawable(u) = 0 THEN FreshSnapshots(u) ELSE @]
    /\ depositScaleSnapshot' = [depositScaleSnapshot EXCEPT ![u] = scaleIndex]
    /\ depositEpoch' = [depositEpoch EXCEPT ![u] = drainEpoch]
    /\ totalDeposits' = totalDeposits + amount
    /\ wallet' = [wallet EXCEPT ![u] = @ - amount]
    /\ poolGUSD' = poolGUSD + amount
    /\ UNCHANGED <<scaleIndex, epochBoundaryScaleIndex, cumulativeGainPerGUSD,
                   collateralTokens, poolColl, seized>>

HasDeposit(u, amount) == SettledDeposit(u) >= amount

Withdraw(u, amount) ==
    /\ amount > 0
    /\ ~IsStale(u)
    /\ HasDeposit(u, amount)
    /\ totalDeposits >= amount
    /\ poolGUSD >= amount
    /\ deposits' = [deposits EXCEPT ![u] = SettledDeposit(u) - amount]
    /\ depositScaleSnapshot' = [depositScaleSnapshot EXCEPT ![u] = SettledSnapshot(u)]
    /\ totalDeposits' = totalDeposits - amount
    /\ wallet' = [wallet EXCEPT ![u] = @ + amount]
    /\ poolGUSD' = poolGUSD - amount
    /\ UNCHANGED <<depositEpoch, gainSnapshots, scaleIndex, epochBoundaryScaleIndex,
                   cumulativeGainPerGUSD, collateralTokens, poolColl, seized>>

(* _settleGains, then _claimIlk. *)
ClaimCollateral(u, i) ==
    /\ IsRegistered(i)
    /\ poolColl[collateralTokens[i]] >= PendingGain(u, i)
    /\ deposits' = [deposits EXCEPT ![u] = SettledDeposit(u)]
    /\ depositScaleSnapshot' = [depositScaleSnapshot EXCEPT ![u] = SettledSnapshot(u)]
    /\ gainSnapshots' = [gainSnapshots EXCEPT ![u][i] = cumulativeGainPerGUSD[i]]
    /\ poolColl' = [poolColl EXCEPT ![collateralTokens[i]] = @ - PendingGain(u, i)]
    /\ UNCHANGED <<poolVars, depositEpoch, collateralTokens, wallet, poolGUSD, seized>>

(* Mutant: the gain is overwritten instead of accumulated. *)
LastGain(i, coll) == (coll * PRECISION) \div totalDeposits

CumulativeGainAfter(i, coll) ==
    cumulativeGainPerGUSD[i] + (coll * PRECISION) \div totalDeposits

(* Called by VaultManager with a positive share of the seized collateral.  *)
(* totalDeposits >= debt > 0, so the code's collateralDust branch is dead. *)
Offset(debt, i, coll) ==
    LET token == collateralTokens[i]
        remaining == totalDeposits - debt
    IN  /\ debt > 0
        /\ totalDeposits >= debt
        /\ IsRegistered(i)
        /\ seized[token] >= coll
        /\ poolGUSD >= debt
        /\ cumulativeGainPerGUSD' = [cumulativeGainPerGUSD EXCEPT
                ![i] = CumulativeGainAfter(i, coll)]
        /\ IF remaining > 0
           THEN /\ scaleIndex' = (scaleIndex * remaining) \div totalDeposits
                /\ UNCHANGED epochBoundaryScaleIndex
           ELSE /\ scaleIndex' = PRECISION
                /\ epochBoundaryScaleIndex' = Append(epochBoundaryScaleIndex, scaleIndex)
        /\ totalDeposits' = remaining
        /\ poolGUSD' = poolGUSD - debt
        /\ seized' = [seized EXCEPT ![token] = @ - coll]
        /\ poolColl' = [poolColl EXCEPT ![token] = @ + coll]
        /\ UNCHANGED <<userVars, gainSnapshots, collateralTokens, wallet>>

-----------------------------------------------------------------------------
UserStep(u) ==
    \/ \E amount \in 1..wallet[u] : Deposit(u, amount)
    \/ \E amount \in 1..totalDeposits : Withdraw(u, amount)
    \/ \E i \in Ilks : ClaimCollateral(u, i)

LiquidationStep ==
    \E debt \in 1..totalDeposits, i \in Ilks :
        \E coll \in 1..Seizable : Offset(debt, i, coll)

Next ==
    \/ \E u \in Depositors : UserStep(u)
    \/ LiquidationStep
    \/ \E i \in Ilks, t \in Tokens : RegisterCollateralToken(i, t)

Spec == Init /\ [][Next]_vars

-----------------------------------------------------------------------------
Stakes == [u \in Depositors |-> Withdrawable(u)]

(* The deposits that withdraw would honour never add up to more than the   *)
(* pool accounts for, and the pool holds that much gUSD, through any mix of *)
(* partial offsets, drains and rounding, as long as the scale has not      *)
(* rounded down to zero (withdraw, deposit, offset, _settleGains).         *)
DepositsCovered ==
    /\ poolGUSD = totalDeposits
    /\ scaleIndex > 0 => SumFunctionOnSet(Stakes, Depositors) <= totalDeposits

(* No depositor's snapshot is ahead of the cumulative gain, whatever order *)
(* registrations, drains and re-deposits come in: the checked subtraction  *)
(* in _claimIlk never underflows and locks a claim.                        *)
SnapshotsBehind ==
    \A u \in Depositors, i \in Ilks : gainSnapshots[u][i] <= cumulativeGainPerGUSD[i]

(* A deposit made by an account without a stake starts with no claim on the *)
(* collateral of earlier liquidations (GOO-367, GOO-369 in deposit).       *)
NoRetroactiveGains ==
    [][\A u \in Depositors :
          wallet'[u] < wallet[u] /\ Withdrawable(u) = 0
          => \A i \in Ilks : IsRegistered(i) => PendingGain(u, i)' = 0]_vars

-----------------------------------------------------------------------------
(* The promise the vault manager and the depositors rely on, see Backstop. *)
Promise == INSTANCE Backstop WITH pool <- totalDeposits, stake <- Stakes

(* The lazily scaled ledger implements the eager one of Backstop: every    *)
(* call on the pool is a Backstop step or changes no stake.                *)
ImplementsBackstop == Promise!Spec

(* Where that holds: the scale has not rounded down to zero, and its units *)
(* are not so coarse that a deposit loses more than Dust to one rounding.  *)
PrecisionHolds ==
    /\ scaleIndex > 0
    /\ \A u \in Depositors :
          ~IsStale(u) => deposits[u] <= (Dust - 1) * OrPrecision(depositScaleSnapshot[u])
=============================================================================
