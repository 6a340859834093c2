# GoodDollar L2: models, checks and proofs

TLA+ modules of the stateful core of GoodDollar L2, TLC configurations that
check them on small instances, and TLAPS proofs, for every value of the
constants, of the invariants of the stable-coin part, the prediction markets, the
bridge, the perpetuals, governance and validator staking. Paths below are
relative to the repository.

Parse, check and prove from this directory:

    tlasany VaultManager.tla
    tlc -workers 2 -config VaultManager.cfg MCVaultManager
    tlapm VaultManagerProofs.tla

`PROJECT.json` maps every definition to the source lines it stands for, every
hazard to the line where it bites, and every property to a plausible bug that
breaks it (a mutant: an operator next to the definition it replaces, marked
`Mutant` in the module).

## 1. The system

GoodDollar L2 is an OP-Stack rollup whose dApps send their fees to a basic
income. Solidity contracts (`src/src/`) hold the money. TypeScript services
(`src/backend/`) match orders, hedge exposures, feed prices and run keepers.
A contract call is atomic and calls interleave in any order. A service is one
event loop, whose handlers interleave at every `await`.

| Component | State | Operations | What is hard | What makes it correct |
|---|---|---|---|---|
| StabilityPool (`stable/StabilityPool.sol`) | deposits stored lazily, a scale index, drain epochs, cumulative gain per ilk | deposit, withdraw, claimCollateral, offset, registerCollateralToken | deposits are settled only when touched, any number of offsets and drains later | the lazy deposits are covered by the gUSD held and never exceed what an eager ledger would give; a deposit that starts from nothing has no claim on earlier gains |
| VaultManager, gUSD, CollateralRegistry (`stable/`) | vaults, normalized debt, accumulator `chi`, totals; gUSD balances and supply | drip, deposit, withdraw, mint, repay, close, liquidate, gUSD transfers, registry updates | several ledgers updated by hand with different rounding; liquidation through the pool and the liquidator | totals are sums, supply is what is held, no debt without collateral, health is lost only to the market |
| MarketFactory, ConditionalTokens (`predict/`) | market status, collateral, issued sides, one shared G$ balance | create, buy, close, resolve, void, redeem, transfer | all markets and the fees share a balance; winners redeem in any order | tokens stay backed, voided stakes refundable, pro-rata payouts |
| OptimisticResolver (`predict/`) | requests, proposals, disputes, bonds | request, propose, dispute, finalize, adminResolveDispute, emergencyResolve | the admin may resolve the market behind the resolver's back | bonds are held; a final outcome is the market's |
| GoodDollarBridge L1 and L2 (`bridge/`) | locked totals, minted totals, pending ETH, pause flags, peers, mapping | deposit, withdraw, finalize on either side, admin calls | messages are delayed, reordered, refused and retried | tokens and ETH are conserved over both layers and the messages |
| Perps order book and MatchingEngine (`backend/perps/src/orderbook`) | levels, indices by id and by user, trades, pending settlements | submit, cancel, cancelAll, flush, stop | four structures kept in step by hand; prices keyed by spelling and checked for limit orders only | book agrees with the orders, fills add up, priority, one settlement per trade |
| SmartOrderRouter (`backend/perps/src/router`) | executions and their awaits on venues | quote, executeOrder | the quote is stale or counts what matching skips | no more filled than asked for |
| PerpEngine, MarginVault, FundingRate (`perps/`) | positions, open interest, margin balances, funding index and clock | create, open, close, liquidate, deposit, withdraw, funding | fees, funding, losses and bonuses all move through one vault | totals agree, nothing appears in the vault, losses stop at the margin |
| VoteEscrowedGD and GoodDAO (`governance/`) | locks, delegates, checkpoints of votes and of their total, G$ held; proposals, receipts, guardian | lock, increaseLock, extendLock, withdraw, earlyUnlock, delegate; propose, castVote, queue, execute, cancel | a lock's power decays, checkpoints do not; several changes share a block; `address(0)` as delegate skips one checkpoint of two; quorum is a share of today's total | delegates keep the votes of others; votes stay within the total; locks are held; a closed verdict turns only with the total |
| Lending pool (`lending/GoodLendPool.sol`, gToken, debt token, rates, oracle) | scaled balances and totals, indexes, rates, treasury share, cash, prices | supply, withdraw, borrow, repay, liquidate, flashLoan, mintToTreasury, gToken transfers, admin calls | interest is booked by whoever calls next, per reserve; health is read from pending indexes of all reserves | totals are sums, suppliers and treasury are covered up to a recorded cost, health is lost only to the market |
| ValidatorStaking (`ValidatorStaking.sol`) | stakes, unbonding requests, rewardDebt, the list and its index, counters, G$ held | stake, initiateUnstake, completeUnstake, slash, claimRewards | four calls and a slash move the same entry; rewards share the balance with principal | the list is exact, principal is held, only time earns |
| Hedge engine (`backend/hedge-engine`) | tick lock, caps, latch; the broker's positions | interval ticks, runOnce, stop, restart | reads and orders separated by awaits; lost replies; crashes; midnight | no double hedge, caps hold, symbols end up hedged |

How they interact: VaultManager calls the pool's `offset` during a liquidation
and moves gUSD through gUSD's minter and burner; the resolver resolves and voids
markets of the factory; the two bridges call each other through the messengers;
the router submits to the matching engine, whose `routeExternal` event
`index.ts` answers on the venue the router also uses; PerpEngine is the only
writer of MarginVault's balances besides the traders, and advances FundingRate
whenever it touches a market; GoodDAO reads votes and totals from VoteEscrowedGD;
GoodLendPool mints and burns gTokens and debt tokens, and a gToken asks the
pool for its index; the hedge engine reads exposures from
`UnifiedRiskEngine` and trades at the eToro demo broker.

Everything else in the repository is listed in section 7.

## 2. Modules

One module per component, with the source's names where TLA+ allows it.
`MC*` modules extend a module with symmetry sets and definitions for its `.cfg`.

- **Backstop**: the abstract promise of a stability pool: an eager ledger in
  which every offset scales every deposit at once. It keeps no gains: claiming
  them is a stutter.
- **StabilityPool**: the lazy implementation, one action per external function
  (`_settleGains` is inside each, as in the code). `Offset` is called by the
  environment with any debt the pool can take. It implements Backstop up to
  rounding down: `ImplementsBackstop` maps the settled deposits to the eager
  ones. Instances in **MCStabilityPool**, proofs in **PoolProofs**.
- **RayMath**: `_rpow`, the repeated squaring with half-up rounding, as a
  RECURSIVE operator. Only **MCVaultManager** uses it: it tabulates the growth
  for the rates of the instance (the constant `Growth`) and compares RayMath
  with the exact power over bounded inputs in the assumption
  `RPowApproximatesPower`. VaultManager itself is free of recursion and can be
  proved about.
- **VaultManager**: the CDP engine with gUSD, the registry's entries and the
  pool's gUSD. Every operation drips first, as the code does. `Liquidate` is the
  whole handler: split between pool and liquidator, both burns, both transfers,
  clearing of the vault. Environment: time, prices, pause, registry updates.
  Proofs in **VaultManagerProofs**, over **SumLemmas**, which proves the facts
  about finite sums, products and quotients that any ledger needs.
- **MarketFactory** and **OptimisticResolver** (which extends it): markets,
  outcome tokens and G$ of all accounts, and the resolver with its bonds.
  Composed by extension, as the resolver's calls change the factory's state in
  the same transaction. Instances in **MCPredict**, proofs in **PredictProofs**.
- **GoodDollarBridge**: both layers and the messengers between them. A message
  in flight is delivered at any time, in any order, only if the handler's
  checks pass; a delivery that reverts leaves it in flight, to be retried. The
  messengers are external and modelled from how the bridges use them, and so are
  the tokens' L2 representations, which only the bridge mints and burns and users
  transfer. `mapToken` maps any token to any representation at any time; the
  history variable `routes` keeps the pairs it has ever connected. Instances
  in **MCGoodDollarBridge**, proofs in **GoodDollarBridgeProofs**.
- **OrderBook**, **MatchingEngine** (extends it), **SmartOrderRouter** (extends
  that): a submission is one action because the code does not await between
  validation, matching, resting and the events. A level's key is the price's
  spelling, as in the code. `matchOrder`'s two nested loops are in closed form:
  `Places` is where they stop, `Makers` puts those places in the order the loops
  visit them, and `LeftAfter` is what `filled` leaves of the taker after each.
  `InsertIndex` is the binary search of `findInsertIndex`, round by round. The price
  of a stop or take-profit order may be `NaN`, with which no comparison is true. The
  router's `executeOrder` is split at its await on the venue. The specification
  of the engine is `MatchingSpec`. Instances in **MCMatchingEngine** and
  **MCSmartOrderRouter**, proofs in **EngineProofs**.
- **MarginVault**, **FundingRate** and **PerpEngine** (extends both): the
  vault's and the funding clock's operations are operators that PerpEngine's
  actions call, as the contract does. Instances in **MCPerpEngine**, proofs in
  **PerpEngineProofs**.
- **ChainClock**: block time, extended by the modules below. Any number of
  calls share a block.
- **VoteEscrowedGD** and **GoodDAO** (which extends it): the locks with their
  checkpoints, and the proposals that read them. `WriteCheckpoint` overwrites
  the entry of the same block and `_sub` stops at zero, as in the code. Instances
  in **MCGoodDAO**, proofs in **StakedGDProofs**.
- **InterestRateModel** and **GoodLendPool** (which extends it): the rates, and
  the pool with its gToken, debt token and price oracle. `Updated` is
  `_updateState`, `Refresh` what each call then does to the rates;
  `HealthAtLeast` reads pending indexes of every reserve, as the code does.
  Two history variables, which no guard reads, say what the books leave out:
  `rated` is the deposits that a reserve's rates were set for, and `unbacked` the
  most that its interest and its debts have cost the pool so far (`BookingCost`
  for each booking, one scaled unit of debt for each loan or repayment). Its
  specification is `LendSpec`. Instances in **MCGoodLendPool**, proofs in **PoolProofs**.
- **ValidatorStaking**: one action per call; `Delist` is the swap with the last
  entry. `drawn` is a history variable: the rewards that were paid out of what
  somebody is unbonding. Its specification is `StakingSpec`. Instances in
  **MCValidatorStaking**, proofs in **StakedGDProofs**.
- **HedgeEngine**: an activation is a tick or a `runOnce`. Its `act` record
  is its program counter and local variables; each `await` ends an action; its
  history field `found` notes that it has met an engaged kill switch. The
  environment moves exposures, creates and removes the kill-switch file, passes
  midnight, crashes and restarts the process. Replies may be lost after the
  broker has filled. Instances in **MCHedgeEngine**, proofs in
  **EngineProofs**.

## 3. Runs

Passing runs. Every action of their next-state relations is taken. Deadlock is
checked everywhere but in the order book's runs, whose process may end (`stop()`),
and where nothing is left to do: in `governance` and `lending` when the calls and
the time of the instance are used up, in `validator_staking` when in addition all
G$ are in the reward reserve.

| Run | Instance (`.cfg` on module) | What it shows |
|---|---|---|
| `stability_pool` | `StabilityPool.cfg` on MCStabilityPool | `DepositsCovered`, `SnapshotsBehind`, `NoRetroactiveGains` and the refinement `ImplementsBackstop`, through drains, re-entries and late registration |
| `vault_manager` | `VaultManager.cfg` on MCVaultManager | `LedgersAgree` (debt, collateral, gUSD supply), `IlkDebtNotAhead`, `NoUnsecuredDebt`, and `HealthLostOnlyToMarket`: a step of a user never makes a vault liquidatable |
| `predict` | `Predict.cfg` on MCPredict | `VoidRefundable`, `FactorySolvent`, `BondsHeld`, `FinalAgrees` with two markets on one balance |
| `bridge` | `GoodDollarBridge.cfg` on MCGoodDollarBridge | `TokenConserved`, `MintedIsHeld`, `ETHConserved`, `ReservedETHHeld` |
| `hedge_engine` | `HedgeEngine.cfg` on MCHedgeEngine | `LockIsExact`, `CapsRespected`, `HaltsForTheTick`, `NoDoubleHedge` and the liveness property `EventuallyHedged` |
| `governance` | `GoodDAO.cfg` on MCGoodDAO | `VotesCoverPower`, `VotesWithinTotal` (at every time that can be looked up), `LocksHeld`, and `VerdictTurnsOnlyWithSupply`: once voting has closed, only a step that moves the total voting power changes the verdict |
| `lending` | `GoodLendPool.cfg` on MCGoodLendPool | `SuppliesAreSums`, `Solvent`, and `HealthLostOnlyToMarket`: an account becomes liquidatable by time, a price, an admin's switch or by giving its gTokens away, never by its own borrowing or withdrawing nor by what others do |
| `validator_staking` | `ValidatorStaking.cfg` on MCValidatorStaking | `RollIsExact`, `PrincipalHeld` and `EarnedOnlyWithTime` |
| `matching_engine` | `MatchingEngine.cfg` on MCMatchingEngine | `BookAgrees`, `FillsAddUp`, `CrossedOnlyBySelf`, `SettledOnce`, `PriceTimePriority` |
| `perp_engine` | `PerpEngine.cfg` on MCPerpEngine | `TotalsAgree`, `Backed`, `FreshPositionHealthy`, `LossLimitedToMargin` |

The type invariants are theorems (section 4).

Runs that refute what the repository says of itself, one property each (the
findings of `PROJECT.json` quote the lines):

| Run | Property | What the code does instead |
|---|---|---|
| `predict_redeem` (`PredictRedeem.cfg`) | `RedeemIsProRata` | The first redemption lowers the collateral but not the totals that later ones are divided by. |
| `sor_overfill` (`SmartOrderRouter.cfg`) | `NeverOverfilled` | The engine and the router both route the rest of a market order that skipped the user's own orders. |

Other disagreements met while modelling are recorded with their hazards, and the
properties are stated around them:

- A later offset of the stability pool shrinks the deposit that earlier,
  unclaimed gains are multiplied with, and collateral stays behind.
- When the pool's share of a liquidated vault's collateral rounds to zero,
  `offset` is skipped, yet the pool's part of the debt is written off and nobody
  burns for it.
- Nothing lowers the bridge's `pendingETHWithdrawalTotal`, so finalized
  withdrawals stay reserved for ever.
- `ValidatorStaking.sol:246` promises that rewards never draw from principal, but
  they are paid from the balance above `totalStaked`, which leaves out what is
  unbonding. `PrincipalHeld` counts what was drawn.
- `pendingRewards` already contains `rewardDebt`, and `stake` adds it to
  `rewardDebt` again: the second of two top-ups without a claim counts the first
  one's rewards twice. `EarnedOnlyWithTime` is about validators without a
  `rewardDebt`.
- `mintToTreasury` and `flashLoan` raise a reserve's deposits without setting its
  rates again, so that suppliers are promised more than borrowers pay until the
  next call. `BookingCost` counts what that costs: the supply rate on what the
  deposits have grown by since the rates were set (`rated`).

- `OrderBook.ts:4` promises price-time priority. A stop order without a price
  leaves a level that puts its side out of order, and two spellings of one price are
  two levels, the later first.

And in the perpetuals `applyFunding` settles one interval per call, so a
position opened after several unsettled intervals is charged for time before it
existed and may be liquidatable at once, although `PerpEngine.sol:234` settles
pending funding first. `FreshPositionHealthy` is therefore stated for openings
that leave no interval unsettled.

### Bounds, and why they are enough

All bounds are constants of the `.cfg` files or guards named in the modules
(`Endowment`, `Seizable`, `MaxTime`, `MaxSupply`, `MaxCollateral`, `MaxIssued`,
`MaxOrders`, `MaxExecutions`, `MaxOpens`, `MaxEvents`, `MaxCalls`, `MaxProposals`,
`MaxAmount`, `Wealth`, `NativeETH`, `Prefund`).
No state constraint is used.

- Fixed point units are small (`RAY = WAD = 2`, `PRECISION = 36`, `BPS = 10` or
  `2`), so that divisions round often. `36` is divisible by most pool sizes of
  the instance, so that both exact and rounded offsets occur.
- Two users are the fewest that can disagree about shares, priorities and
  order of redemption; with a third G$ party (splitter, resolver, pool) they are
  enough for every transfer in the code, which moves between at most two users.
- The bridge has two users, one of whom brings two units of one token and one of
  the other, and the other one of ETH: amounts that are parts of a balance, and
  two tokens and two representations, the fewest that can be mapped together,
  apart and anew. All pausing, configuring and mapping is left free.
- Times are counted in the code's own units of interest (drip periods, funding
  intervals, dispute windows): two of them distinguish "late" from "very late".
- Three orders are the fewest for a cross, a partial fill and the order that
  finds the remainder; prices are 0, 1 and NaN and spellings two, for better, equal,
  equally priced but differently written, and unpriced. 0 can only come with a stop
  order, and 1 is also where the prices of market orders lie, a market sell's at the
  lower end and a market buy's (`MarketBid`) at the upper. To unsort a side takes
  four orders, one more than TLC is given (bids at 2, none, 3 and 1, in this order,
  leave 1 ahead of 2); the theorems are for any number of orders and prices.
- The hedge engine has two ticks, one `runOnce`, two symbols and caps of one
  order per cycle and three per day, small enough to be hit; four environment
  events allow a crash, a midnight, an exposure move and a restart in one run.

- Governance: one proposal with a voting delay, period and timelock of one tick,
  and five calls: a lock, a re-delegation and back, a proposal and a ballot fit,
  several of them in one block, and locks expire on the way (`MIN_LOCK` 2 of
  `MaxTime` 5).
- Lending: `RAY` is 1000 and amounts are of its order, so that indexes grow by
  tens of percent per tick (a rate of the instance is per tick) and every
  division rounds. Two alike reserves are the fewest for collateral and debt to
  differ; four calls of users and one of the admin suffice for supply, borrow,
  a price move and a liquidation. With amounts of the order of `RAY` the costs
  that `Solvent` allows for bite: in this instance it fails without the cost of
  grown deposits, and without that of rounded debts.
- Staking: amounts of a few units; `slashBPS` of 5000 stands for the code's 1000,
  with which a stake of the instance would lose nothing. `rewardRateBPS` and
  `YEAR` make a stake of two earn one a tick. The proofs hold for any values.

Symmetry sets permute users, markets, assets, tokens or spellings that no module
treats specially. The hedge engine's run, the only one with a liveness property,
uses none.

### Fairness

Only HedgeEngine has it: weak fairness of starting the engine (the process
supervisor restarts it), of the interval timer, and of the progress of a pending
`await`, which is answered, rejected or ended by the clients' ten-second timeouts.
Failed reads, refused orders, lost replies and crashes are environment events,
bounded by `MaxEvents`: `EventuallyHedged` is about what follows the last one.
No fairness is assumed of the environment or of users.
The contracts progress only when somebody calls them, so their specifications
are safety-only, and so is the matching engine, whose order flow nobody promises.

## 4. Proofs

| Module | Theorem | For every value of the constants |
|---|---|---|
| PoolProofs (StabilityPool) | `PoolInvariant`, `PoolIsTyped` | `TypeOK /\ SnapshotsBehind`, `TypeOK` |
| | `SnapshotsStayBehind` | `SnapshotsBehind` |
| | `DepositsStayCovered` | `DepositsCovered` |
| | `NewStakesClaimNothing` | `NoRetroactiveGains`, an action property |
| | `PoolImplementsBackstop` | `ImplementsBackstop`, a refinement, while `PrecisionHolds` |
| PoolProofs (GoodLendPool) | `LendingInvariant`, `LendTypeCorrect` | the inductive invariant `LendInv`, `LendTypeOK` |
| | `SuppliesStaySums` | `SuppliesAreSums` |
| | `SolvencyInvariant` | the inductive invariant `SolvencyInv` |
| | `LendStaysSolvent` | `Solvent` |
| | `LendHealthIsLostOnlyToMarket` | `HealthLostOnlyToMarket`, an action property |
| VaultManagerProofs | `LedgerInvariant`, `LedgersAreTyped` | the inductive invariant `IInv`, `TypeOK` |
| | `LedgersAlwaysAgree` | `LedgersAgree` |
| | `DebtIsSecured` | `NoUnsecuredDebt` |
| | `IlkDebtStaysBehind` | `IlkDebtNotAhead` |
| | `HealthIsLostOnlyToMarket` | `HealthLostOnlyToMarket`, an action property |
| PredictProofs | `PredictInvariant`, `PredictIsTyped` | the inductive invariant `IInv`, `TypeOK` |
| | `TokensStayBacked` | `VoidRefundable` |
| | `FactoryStaysSolvent` | `FactorySolvent` |
| | `BondsAreHeld` | `BondsHeld` |
| | `FinalNeverContradicted` | `FinalAgrees` |
| GoodDollarBridgeProofs | `BridgeInvariant` | the inductive invariant `IInv` |
| | `TokensAreConserved` | `TokenConserved` |
| | `MintedTokensAreHeld` | `MintedIsHeld` |
| | `ETHIsConserved` | `ETHConserved` |
| | `ReservedETHIsHeld` | `ReservedETHHeld` |
| PerpEngineProofs | `PerpInvariant`, `PerpIsTyped` | the inductive invariant `IInv`, `TypeOK` |
| | `TotalsAlwaysAgree` | `TotalsAgree` |
| | `VaultIsBacked` | `Backed` |
| | `LossIsLimited` | `LossLimitedToMargin`, an action property |
| | `FreshPositionsAreHealthy` | `FreshPositionHealthy`, if `LeverageLeavesMaintenance` |
| EngineProofs (HedgeEngine) | `HedgeInvariant` | the inductive invariant `IInv` |
| | `LockStaysExact` | `LockIsExact` |
| | `CapsStayRespected` | `CapsRespected` |
| | `HaltedTicksSendNothing` | `HaltsForTheTick`, an action property |
| | `NothingIsHedgedTwice` | `NoDoubleHedge`, an action property |
| EngineProofs (OrderBook, MatchingEngine) | `MatchingInvariant`, `MatchingTypeCorrect` | the inductive invariant `EngineInv`, `MatchingTypeOK` |
| | `BookStaysInAgreement` | `BookAgrees` |
| | `FillsAlwaysAddUp` | `FillsAddUp` |
| | `NeverCrossedByOthers` | `CrossedOnlyBySelf` |
| | `PriceTimePriorityHolds` | `PriceTimePriority`, an action property |
| | `EachTradeSettledOnce` | `SettledOnce` |
| | `MatchingIsSound` | what `Matching` does in any book of the engine, for any request |
| EngineProofs (SmartOrderRouter) | `RouterImplementsEngine` | `SORSpec => MatchingSpec`: the router takes only steps of the engine |
| StakedGDProofs (GoodDAO) | `GovernanceInvariant` | the inductive invariant `IInv` and `TypeOK` |
| | `LocksAreHeld` | `LocksHeld` |
| | `VotesAlwaysCoverPower` | `VotesCoverPower` |
| | `VotesStayWithinTotal` | `VotesWithinTotal` |
| | `VerdictNeedsSupply` | `VerdictTurnsOnlyWithSupply`, an action property |
| StakedGDProofs (ValidatorStaking) | `StakingInvariant`, `StakingIsTyped` | the inductive invariant `IInv`, `TypeOK` |
| | `RollStaysExact` | `RollIsExact` |
| | `PrincipalStaysHeld` | `PrincipalHeld` |
| | `OnlyTimeEarns` | `EarnedOnlyWithTime`, an action property |
| SumLemmas | `SumUpdate`, `SumOfNats`, `SumMonotone`, `SumScaled`, `SumOfZeros`, `SumType` | facts about `SumFunctionOnSet` over finite sets |
| | `DivMonotone`, `QuotientBounds`, `DivOfSum`, `TimesMonotone`, ... | facts about products and rounded quotients of naturals |

Assumptions: the named `ASSUME`s of the modules (`PoolConstants`, `VaultConstants`,
`MarketConstants`, `ResolverConstants`, `BridgeConstants`, `FundingConstants`,
`EngineConstants`, `ClockConstants`, `VoteEscrowConstants`, `DAOConstants`,
`StakingConstants`, `RateConstants`, `LendConstants`, `HedgeConstants`,
`BookConstants`: finite sets of users and markets, positive fixed point units,
oracle prices and requested sizes, a `NaN` that is no number, parts of at most 10000
of 10000, ratios of at least 1.0, a liquidation bonus of at most the whole payout,
and natural rates, ceilings, growth factors, periods and bounds; and, for the
lending pool, that a reserve factor in basis points divides `RAY` without a rest, as
every factor does with the code's 10^27). TLC evaluates them on every run.

Two theorems have a hypothesis that no `ASSUME` makes, because the code does not
enforce it. `LeverageLeavesMaintenance` (`MAINTENANCE_MARGIN_BPS * MaxLeverage <=
BPS`) holds with equality for the deployed 50x and 200 basis points, but
`createMarket` takes any leverage; without it a position can be liquidatable in
the transaction that opens it. `PrecisionHolds` says that the pool's scale has not
rounded down to zero and that no deposit is so large for the scale at which it was
made that one rounding of the scale costs it more than `Dust`: an offset costs a
stake at most `deposit / snapshot + 1` units. At the deployed precision of 1e18 the
scale is lost only after offsets that together leave a 1e18th of the pool, and
`Dust` is one wei for every gUSD of the largest deposit at the initial scale. TLC
finds it true in
every state of the `stability_pool` instance, drains and re-entries included.

*Stability pool.* The types alone are not inductive: a claim pays a difference
of snapshots, a natural only if no snapshot is ahead of the cumulative gain.
`SnapshotsBehind` is therefore proved with them. Each operation has a lemma
(`DepositType`, `WithdrawType`, `ClaimType`, `OffsetType`, `RegisterType`) and
`SnapshotsStep` adds that gains only grow and snapshots are only ever set to
current gains.

`DepositsCovered` is a statement about sums of rounded quotients, which no step
preserves by itself. Inductive is `SharesCovered`: there are a denominator `q` and
weights `w` such that every current deposit, as a fraction of the scale it was
made at, is at most `w / q`, and the weights times the scale add up to at most the
pool. A deposit adds its own fraction (`SumScaled` brings the weights to a common
denominator), a withdrawal lowers one, an offset lowers the scale and the pool
alike and rounds the scale down. For the refinement each operation is mapped: a
deposit, a withdrawal, an offset to the eager one, a claim and a registration to a
stutter; `OffsetAbsorbs` bounds how far the rounded stakes are from the exact
share.

*Lending pool.* `LendInv` joins the types with `ReserveSound` (the indexes are at
least 1.0, the last update is past, and a reserve without debt has no supply rate)
and `TokenSound` for both tokens (the totals are the sums). Indexes of at least 1.0
keep the rounded mints and burns defined (`ScaledNat`), and the sums keep a burn
from taking more than the total holds. The supply rate matters for health:
`_updateState` returns early when nothing is owed and forgets the pending interest
of the suppliers, and only because that interest is zero then does booking leave
the suppliers' index where the pending one was (`UpdatedSound`). Hence no call
lowers a pending liquidity index or raises the borrow index of a debt
(`IndexKept`), and `HealthMonotone` carries that through values, sums and the
health factor: an account whose balances do not fall and whose debts do not rise
stays healthy. Each call has a lemma that says which accounts it may touch
otherwise: those it checks afterwards, a victim who was not healthy, or the sender
of a gift.

*Solvency of the lending pool.* Everything is compared in units of 1/`RAY` of the
underlying, so that only quotients round (`Covers`). `Solvent` is about indexes
with pending interest and is not inductive: it says nothing of what the rates will
add. `SolvencyInv` adds to `LendInv` for each reserve (`SolventAt`) that it is
covered at the indexes it has booked, that its rates are `Fair` to the deposits in
`rated` (supply rate times deposits is no more than borrow rate times debt, less
the reserve factor), and that deposits have not shrunk below `rated`. The argument
has three parts.
(1) `RatesFair`: the rates of InterestRateModel are fair to the deposits and
debts they are computed from: each of the quotients between the two rates rounds
the suppliers' side down, and what the factor leaves them is exact (`KeptExact`,
the assumption on factors).
(2) `BookingCovered`: what `_updateState` adds to the suppliers' index
(`SuppliersGain`) and to the treasury (`TreasuryTakes`) is at most what it adds to
the debts (`BorrowersPay`), up to `BookingCost` (`InterestShared`). The cost has
two causes: the borrow index is rounded down, under 1/`RAY` for each scaled unit of
debt; and the supply rate is paid on deposits that the rates were not set for, and
on the fraction of a unit that the deposits were rounded down by.
(3) One lemma per movement of tokens: deposits are minted rounded down and burnt
rounded up, so neither costs anything (`DepositCovered`, `WithdrawalCovered`);
the treasury's mint and a flash loan's premium give out no more than they take
(`TreasuryCovered`, `PremiumCovered`, at the booked indexes, as `flashLoan` does
not book interest); a loan or a repayment may forgive under one scaled unit of debt
(`LoanCovered`, `RepaymentCovered`). A call on two reserves, a liquidation, does
two of them, on one reserve or on two. Each action then has a lemma
(`SupplySolvent` to `SetReserveFactorSolvent`), and `BookingSolvent` carries
the invariant from the booked to the pending indexes, which gives `Solvent`.
How large the cost is: with the code's `RAY` of 10^27 a booking without grown
deposits costs a few base units of the underlying at most (its supply rate
over the period, and the debt divided by 10^27), a loan or a repayment the borrow
index divided by 10^27, a base unit or so. Only deposits that `mintToTreasury` or a
flash loan has grown cost more, the supply rate on the growth until the next
call. An earlier form of this property excepted such reserves altogether and
allowed one unit per call; the proof showed that the second is not enough for all
constants, and that the first forgave more than the code needs.

*Hedge engine.* `OrdersInHand` ties the orders of an activation to its program
counter, `RoomLeft` says that the caps have room for the order a tick has sent and
not yet counted, on this day and on the next, `OrdersFit` that the orders of a
tick still start from the broker's position unless a `runOnce` has traded the
symbol since, and `LatchHolds` that the latch stands while a tick that has found
the kill switch engaged is under way. The first makes the lock exact, the second
carries the caps across the await, the third gives `NoDoubleHedge`. The last gives
`HaltsForTheTick`, and needs the lock: only the start of another tick's orders
could clear the latch.

*CDP engine.* `IInv` joins `TypeOK`, `AccumulatorsSound` (chi is zero or at least
1.0 and never from the future), the three parts of `LedgersAgree` (`TotalIsSum`,
`CollateralHeld`, `SupplyIsSum`) and `NoUnsecuredDebt`. They need each other: that
subtracting a vault from the total does not leave the naturals is `SumOfNats`
applied to `TotalIsSum`; that a vault can be emptied only when its debt is zero
needs that scaling by chi loses nothing (`ScaleUp`, `OwedAtLeast`), that is, chi of
at least 1.0; the fee minted by a drip enters the supply and a holder at once. The
operations reduce to a few moves (`VaultMoveInv`, `CollateralMoveInv`,
`PoolMoveInv`, `GUSDOnlyInv`), and each has its own lemma. `IlkDebtNotAhead` is
inductive relative to `IInv`. For `HealthLostOnlyToMarket`, `Healthy` reads the debt
at the chi the next drip will set, so that a drip changes nothing (`SameTerms`), and
`OneVaultMoves` leaves one vault to look at per operation.

*Bridge.* The invariant joins the types with the four properties and with
`RoutesKnown`: what is mapped now is among the pairs ever connected. What is under
way is a sum over all messages, finitely many (`MessagesFinite`); `SendMoves` and
`ReceiveMoves` say how one message moves that sum, and `Conservation` that a step
whose asset leaves one place and arrives at another conserves it. `HoldingMoves`
and `MintedMoves` say how one wallet and one counter move the sums over any group
of representations and tokens; with `RoutesKnown` a mint or a burn moves both sides
of a group that is apart from the rest, or neither (`MintedFollows`). A mapping
only makes fewer groups apart. `ReservedETHHeld` keeps the ETH of the L2 bridge a
natural. Nothing is assumed about the order of deliveries.

*Perpetuals.* The invariant joins the types, `PositionsSound` (an open position
has an entry price to divide by, a closed one no margin), `TotalsAgree` and
`Backed`. `PayoutNat` and `ShareBounded` bound what a closing pays and what the
bonus takes from it, so that a balance never leaves the naturals; that lowering
the open interest does not either is `SumOfNats` applied to `TotalsAgree`.
`SettleSound`, `PositionReplaced` and `InterestReplaced` say how one balance and
one position move the sums; closing and liquidating share
`ClosePositionOfSound`. Each handler's lemma also says which balances it may
lower, from which the action property follows. For fresh positions `FreshInv` says
that they were opened at the market's present price and funding index and within
the leverage: they have gained and lost nothing, and the margin is the maintenance
margin or more.

*Prediction markets.* `VoidRefundable` speaks of the markets that may still be
voided; inductive is `Backed`, which equates collateral and tokens before a
market's creation as well and until it is resolved to a side. `ResolutionsFit`
adds that a bond is only recorded together with the account that placed it: what
is paid out exists and goes to somebody. `HoldingReplaced` and `ResolutionMoves`
say how one holding and one resolution move the sums.

*Governance.* Two facts are needed beyond the properties. `TotalCovers`: the
latest votes of all users and the power delegated to nobody are together within
the latest total; a delegation to nobody only takes votes away and the way back
only adds them, so `VotesWithinTotal` alone is not inductive. `HistoriesPast`:
no checkpoint lies in the future; a write therefore changes what is looked up
only for times that have not passed (`OneWritten`). Because a lock's power only
decays, what was added to a checkpoint is never less than what is taken away,
and the `_sub` that stops at zero never eats another delegator's votes
(`VotesFollow`).

*Staking.* That the list has no duplicates says too little for the removal by
swapping: `ListedAs` says that the list and its index are inverse to each other
over exactly the exposed validators, and yields `RollIsExact`. `PrincipalHeld`
follows entry by entry from the sums of stakes and unbonding requests. For
`OnlyTimeEarns` the invariant adds that no stake is from the future, and
`EarnedMonotone` that a quotient grows with its dividend.

*Order book.* The induction is over `BookInv`. It says of every level that its ids
increase (oldest first, since ids are given in order), that they are open orders of
its side, price and spelling with something left, and that its total is the sum of
what they have left (`LevelHolds`); of every side that no two levels have the same
price and spelling (`Distinct`); and that an order is on its side exactly while
`ordersById` has it. Nothing of this depends on prices being numbers. Only while no
order that may rest has come without a price (`PricedBook`) does it say that every
level has a price and none is better than one before it (`Ordered`); the binary
search is then shown to end, after as many halvings as there are levels, where a new
level belongs (`InsertIndexFacts`), and in any other book at least within the side.
The increasing ids are what `BookAgrees` does not say and `PriceTimePriority` needs;
they also give that no level holds an order twice (`IncreasingCount`). The heart is
`MatchingIsSound`. The makers are the places of the opposite side in their order
(`InOrderFacts`: `InOrder` lists a finite set in any strict total order), what the
first `n` of them take is what the request has lost by then (`TradesAddUp`), and so
each maker gives at most what it has and is met once and, while the request has
something left and the side is ordered, every order it could meet is empty
(`MatchSound`). All four properties follow from that: fills add up because a trade
adds the same amount to the maker's and the taker's side of the equation
(`AcceptFills`); in an ordered side a rest that joins the book has emptied every
other user's order it crosses (`CrossedOnlyBySelf`, together with the refusal of
crossing PostOnly orders); a passed-over order is a contradiction with the order of
the places (`PriceTimePriority`). Sweeping, joining and removing are each shown to
keep a side (`SweptHolds`, `JoinedHolds`, `RemoveHolds`), whose totals are sums over
disjoint sets (`TotalSplit`, `TotalAdd`).

*Matching engine.* `SettledOnce` is inductive with the types: what a submission adds
to the trades is what it queues (`TailOfConcat`), and a flush appends to the batches
what it takes from the queue (`FlattenAppend`, over the definition of
`FlattenSeq`). For the router it is enough that what it submits is a request: the
internal part of a quote is a natural, at most the size asked for and never zero
(`InternalAvailableType`). That the router overfills is no contradiction: it does so
with legal steps of the engine.

*SumLemmas.* The provers cannot instantiate theorems with operator parameters,
so induction over finite sets is derived here for sets of sets
(`FiniteSetInduction`, `NatSetInduction`), and `SumFunctionOnSet` is shown to
satisfy its recursion equations from the definition of the fold.

Every safety invariant and action property of a passing run is a theorem. The two
violated properties are false and have their counterexamples. Out of the prover's
reach, and left to TLC: liveness under fairness (`EventuallyHedged`), and what the
recursive `_rpow` computes for every input.

## 5. What each model abstracts

- Allowances, roles that are checked and never change the ledgers (minter,
  burner, allowlists), admin hand-over and events are left out everywhere.
  Admin operations that change what the properties depend on (prices, ilk
  configurations, pause flags, peers, mappings, bonds, windows) are actions.
- StabilityPool: a scale that rounds to zero needs a pool 1e18 times larger than
  what an offset leaves; `DepositsCovered` is stated for a positive scale.
- VaultManager: `setFeeSplitter` and the splitter's own distribution are
  external; fees end in `feeSink`. The pool appears as the gUSD it holds; what it
  owes its depositors is StabilityPool's subject.
- Predict: the amounts of gas-limited loops and the resolver's unused committee
  are left out.
- Bridge: `TokenConserved` is stated for histories in which `withdrawGDollar` and
  `withdrawUSDC` name their own token; the code accepts the other one, and the
  history variable `crossed` records it. `MintedIsHeld` is stated for groups of
  tokens and representations that no mapping has connected with others, since
  `mapToken` can move or share a mapping: within such a group the check against
  `totalMinted` of one token may then refuse a holder. A second peer for a bridge
  (`setL1Bridge` with another address), gas limits and the `deposits` record,
  which no function reads, are left out.
- Order book: IOC and FOK are one (`"ioc"`), since the code treats them alike.
  Stop and take-profit orders are placed at once like limit orders, but nothing
  checks their price (`validateOrder`): it may be below every limit price or `NaN`.
  An order without a price trades at any price or rests as a level that compares
  with nothing; behind such a level `findInsertIndex` no longer keeps a side sorted.
  `BookAgrees` (for the order of the levels), `CrossedOnlyBySelf` and the better-price
  part of `PriceTimePriority` are therefore stated for books in which no order that
  may rest has come without a price (`PricedBook`); what they say otherwise, and
  `FillsAddUp`, holds for all. Prices off the tick are like any others. The model has
  one market and no fees, and follows a trade up to the emitted settlement batch.
  Time priority is stated within one spelling: across spellings the code does
  not keep it.
- Router: one venue, the one `index.ts` registers.
- Perpetuals: the oracle and the fee splitter are external; percentages are
  scaled to tenths; time is counted in whole funding intervals. `gains` and
  `fresh` are history variables that no guard reads. `initMarket`, which the
  funding contract's admin may call for a market in use, restarts its index under
  open positions (`AdminInitMarket`); like a price move it ends `fresh`.
- Governance: amounts stay below the widths the code truncates to. The DAO's
  calls to other contracts when it executes a proposal, and ETH it receives, are
  external. Votes are the checkpoint at the proposal's start, which a later
  re-delegation of the same block still moves.
- Lending: starts after `initReserve`, and a reserve is initialised once: the code
  also accepts `initReserve` for a reserve the admin has deactivated, which sets its
  indexes back under its holders, may give it other tokens and lists it a second
  time, and the model does not. Allowances, rate parameters, the oracle's,
  the treasury's and the admin's hand-over are left out, and the receiver of a
  flash loan repays and calls nothing back. The rate per year that the code
  multiplies with seconds and divides by `SECONDS_PER_YEAR` is a rate per tick:
  what that division truncates (under 1/`RAY` of the debt and of the deposits for
  each booking) is not in `BookingCost`.
- Staking: names and endpoints are left out. `ValidatorStakingDevnet` is the same
  contract with another `MIN_STAKE`.
- Hedge engine: `main()` builds the engine without cap enforcer or kill switch;
  the model is of an engine with both, as the tests build it. A broker that
  fills after the request has timed out, the broker's pending state, dry-run
  mode and the proof files are not modelled.

## 6. Hazards

`PROJECT.json` lists them by line, with the properties of section 3 that speak of
them and, where the code has the behaviour a hazard warns of, a note. Not every
property named would catch its hazard going wrong. Two hazards have no property: a
market settled behind the resolver's back or to a side nobody bought depends on an
admin who is not obliged to act, and for gains priced with a deposit that has since
changed (`StabilityPool.sol:389`) the code keeps no promise. In seven more the
code has the behaviour, and the property leaves out or counts exactly that:

- `GoodDAO.sol:207`, a closed vote's verdict turning: `VerdictTurnsOnlyWithSupply`
  permits it when the total power of the day has changed, and nothing else.
- `ValidatorStaking.sol:257`, rewards paid out of what is unbonding:
  `PrincipalHeld` counts them (`drawn`).
- `ValidatorStaking.sol:120`, rewards counted twice: `EarnedOnlyWithTime` is about
  validators without a `rewardDebt`.
- `OrderBook.ts:249`, unpriced orders and prices written in two ways: the order of
  a side, crossing and better prices are about priced books, time priority about
  one spelling.
- `index.ts:273`, a batch lost between the engine and the chain: `SettledOnce` ends
  at the emitted batch.
- `FundingRate.sol:93`, intervals charged to a later position: `FreshPositionHealthy`
  is about openings that leave none unsettled.
- `PerpEngine.sol:435`, profits nobody has lost: `Backed` counts them (`gains`).

## 7. Not modelled

- `GoodTimelock`: nothing in the DAO calls it; GoodDAO has a delay of its own,
  which is modelled.
- The peg stability module: par swaps between one reserve and gUSD, each in one
  transaction; for gUSD's supply it is one more minter.
- FastWithdrawalLP, the multi-chain bridge and the LiFi aggregator: the first,
  composed with both layers of the bridge, has more states than TLC finishes in
  minutes; the others hand tokens to external bridges and keep counters.
- The copies of the OP Stack's own contracts: external.
- Synthetic stocks: the pattern of VaultManager and a constant-product pool.
- The risk engine and the clearing house: bookkeeping that the hedge engine reads.
- Swaps, limit orders, yield vaults, fee splitters, UBI claims and the agent
  registry: arithmetic over one amount, escrow of one order per record, or
  counters.
- Oracles and price services: prices are nondeterministic inputs; staleness and
  deviation checks are not modelled.
- Keepers, indexing, monitoring: polling or read-only reporting; what they
  trigger is modelled as a call by anybody.
- The settlement client: what follows from its shared nonce depends on the
  node's mempool.
- The eToro client: external in HedgeEngine; its demo caps are checked before an
  await and recorded after it, the pattern `CapsRespected` is about.
- The predict backend's book: the pattern of the perps book.
- The hedge engine's circuit breakers (not wired into the engine), receipts and
  servers.
- Frontend, SDK, analytics, deployment scripts, vendored libraries: no state of
  the protocol. They are most of the repository's lines.

## 8. What could come next

In this order: an abstract bridge (one ledger with assets in
transit) that GoodDollarBridge implements; FastWithdrawalLP over that abstract
bridge, which keeps its states few; the peg module beside VaultManager.
