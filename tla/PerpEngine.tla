------------------------------ MODULE PerpEngine ------------------------------
(***************************************************************************)
(* The on-chain perpetuals engine (perps/PerpEngine.sol) over its vault    *)
(* and its funding clock: traders open and close leveraged positions,      *)
(* anyone liquidates, and each of these first settles a funding interval.  *)
(* The oracle and the fee splitter are external.                           *)
(***************************************************************************)
EXTENDS MarginVault, FundingRate

CONSTANTS
    Prices,           \* what the oracle may report
    Sizes, Margins,   \* what traders ask for
    MaxLeverage,
    BPS, TRADE_FEE_BPS, MAINTENANCE_MARGIN_BPS, LIQUIDATION_BONUS_BPS,
    MaxOpens          \* bound on the positions ever opened

ASSUME EngineConstants ==
    /\ Prices \in SUBSET (Nat \ {0})
    /\ Sizes \in SUBSET (Nat \ {0}) /\ Margins \in SUBSET (Nat \ {0})
    /\ MaxLeverage \in Nat /\ BPS \in Nat \ {0} /\ TRADE_FEE_BPS \in Nat
    /\ MAINTENANCE_MARGIN_BPS \in Nat /\ LIQUIDATION_BONUS_BPS \in 0..BPS
    /\ MaxOpens \in Nat

VARIABLES
    active,          \* the markets created
    positions,       \* user -> market -> position
    openInterest,    \* market -> isLong -> notional
    mark, index,     \* market -> price the oracle reports
    paused,
    opens,           \* positions opened so far
    gains,           \* history: what traders have won less what they have lost
    fresh            \* history: opened with no interval left to settle, and nothing moved since

marketVars == <<active, mark, index, paused>>
vars == <<vaultVars, fundingVars, positions, openInterest, marketVars, opens, gains, fresh>>

Empty == [isOpen |-> FALSE, isLong |-> FALSE, size |-> 0, entryPrice |-> 0,
          margin |-> 0, entryFundingIdx |-> 0]

Init ==
    /\ VaultInit
    /\ FundingInit
    /\ active = {}
    /\ positions = [u \in Users |-> [m \in Markets |-> Empty]]
    /\ openInterest = [m \in Markets |-> [long \in BOOLEAN |-> 0]]
    /\ mark \in [Markets -> Prices]
    /\ index \in [Markets -> Prices]
    /\ paused = FALSE
    /\ opens = 0
    /\ gains = 0
    /\ fresh = [u \in Users |-> [m \in Markets |-> FALSE]]

-----------------------------------------------------------------------------
Fee(size) == (size * TRADE_FEE_BPS) \div BPS

PnL(pos, price) ==
    LET pnl == Quotient(pos.size * (price - pos.entryPrice), pos.entryPrice)
    IN  IF pos.isLong THEN pnl ELSE -pnl

(* What closing a position brings its trader, beyond the margin. *)
NetPnL(pos, price, fundingIndex) ==
    PnL(pos, price)
    - AccruedFunding(IF pos.isLong THEN pos.size ELSE -pos.size, pos.entryFundingIdx, fundingIndex)

Payout(pos, net) == IF pos.margin + net > 0 THEN pos.margin + net ELSE 0

(* remainingMargin of liquidate. *)
Unhealthy(pos, net) == (Payout(pos, net) * BPS) \div pos.size < MAINTENANCE_MARGIN_BPS

(* Mutant: the leverage check divides, and the division rounds down. *)
RoundedLeverage(size, margin) == size \div margin <= MaxLeverage

LeverageAllowed(size, margin) == size <= margin * MaxLeverage

OpenPosition(u, m, size, isLong, margin) ==
    /\ ~paused /\ m \in active
    /\ opens < MaxOpens
    /\ ~positions[u][m].isOpen
    /\ LeverageAllowed(size, margin)
    /\ balances[u] >= margin + Fee(size)
    /\ ApplyFunding(m, mark[m], index[m])
    /\ positions' = [positions EXCEPT ![u][m] =
            [isOpen |-> TRUE, isLong |-> isLong, size |-> size, entryPrice |-> mark[m],
             margin |-> margin, entryFundingIdx |-> cumulativeFundingIndex'[m]]]
    /\ openInterest' = [openInterest EXCEPT ![m][isLong] = @ + size]
    /\ Settle(u, -(margin + Fee(size)))
    /\ FlushFee(Fee(size))
    /\ opens' = opens + 1
    /\ fresh' = [fresh EXCEPT ![u][m] = (lastFundingTime'[m] = now)]
    /\ UNCHANGED <<marketVars, gains>>

(* Mutant: the interest of the closed position stays. *)
KeepInterest(m, pos) == UNCHANGED openInterest

LowerInterest(m, pos) ==
    openInterest' = [openInterest EXCEPT ![m][pos.isLong] = @ - pos.size]

(* _closePosition, of which the trader keeps what is paid out less a bonus. *)
ClosePositionOf(u, m, net, bonus) ==
    LET pos == positions[u][m]
    IN  /\ LowerInterest(m, pos)
        /\ positions' = [positions EXCEPT ![u][m] = Empty]
        /\ Settle(u, Payout(pos, net) - bonus)
        /\ FlushFee(bonus)
        /\ gains' = gains + Payout(pos, net) - pos.margin
        /\ fresh' = [fresh EXCEPT ![u][m] = FALSE]
        /\ UNCHANGED <<marketVars, opens>>

ClosePosition(u, m) ==
    /\ ~paused
    /\ positions[u][m].isOpen
    /\ ApplyFunding(m, mark[m], index[m])
    /\ ClosePositionOf(u, m, NetPnL(positions[u][m], mark[m], cumulativeFundingIndex'[m]), 0)

(* Mutant: the bonus is a share of the margin posted at the opening. *)
ShareOfPosted(pos, net) == (pos.margin * LIQUIDATION_BONUS_BPS) \div BPS

Bonus(pos, net) == (Payout(pos, net) * LIQUIDATION_BONUS_BPS) \div BPS

Liquidate(trader, m) ==
    LET pos == positions[trader][m]
        net == NetPnL(pos, mark[m], cumulativeFundingIndex'[m])
    IN  /\ ~paused
        /\ pos.isOpen
        /\ ApplyFunding(m, mark[m], index[m])
        /\ Unhealthy(pos, net)
        /\ ClosePositionOf(trader, m, net, Bonus(pos, net))

-----------------------------------------------------------------------------
CreateMarket(m) ==
    /\ m \notin active
    /\ active' = active \cup {m}
    /\ InitMarket(m)
    /\ UNCHANGED <<vaultVars, positions, openInterest, mark, index, paused, opens, gains, fresh>>

SetPaused ==
    /\ paused' = ~paused
    /\ UNCHANGED <<vaultVars, fundingVars, positions, openInterest, active, mark, index, opens, gains, fresh>>

(* The funding contract's admin may settle an interval at prices of its own. *)
AdminFunding(m, p, q) ==
    /\ ApplyFunding(m, p, q)
    /\ UNCHANGED <<vaultVars, positions, openInterest, marketVars, opens, gains, fresh>>

(* The admin may also start the funding of a market anew, in use or not: *)
(* open positions are then settled against an index that begins at zero.  *)
AdminInitMarket(m) ==
    /\ InitMarket(m)
    /\ fresh' = [u \in Users |-> [fresh[u] EXCEPT ![m] = FALSE]]
    /\ UNCHANGED <<vaultVars, positions, openInterest, marketVars, opens, gains>>

OracleMoves(m, p, q) ==
    /\ mark' = [mark EXCEPT ![m] = p]
    /\ index' = [index EXCEPT ![m] = q]
    /\ fresh' = [u \in Users |-> [fresh[u] EXCEPT ![m] = FALSE]]
    /\ UNCHANGED <<vaultVars, fundingVars, positions, openInterest, active, paused, opens, gains>>

VaultStep(u) ==
    /\ \E amount \in Amounts : Deposit(u, amount) \/ Withdraw(u, amount)
    /\ UNCHANGED <<fundingVars, positions, openInterest, marketVars, opens, gains, fresh>>

TimePasses ==
    /\ IntervalPasses
    /\ fresh' = [u \in Users |-> [m \in Markets |-> FALSE]]
    /\ UNCHANGED <<vaultVars, positions, openInterest, marketVars, opens, gains>>

Next ==
    \/ \E u \in Users : VaultStep(u)
    \/ \E u \in Users, m \in Markets :
          \/ ClosePosition(u, m)
          \/ Liquidate(u, m)
          \/ \E size \in Sizes, isLong \in BOOLEAN, margin \in Margins :
                OpenPosition(u, m, size, isLong, margin)
    \/ \E m \in Markets : CreateMarket(m) \/ AdminInitMarket(m)
    \/ \E m \in Markets, p, q \in Prices : AdminFunding(m, p, q) \/ OracleMoves(m, p, q)
    \/ SetPaused
    \/ TimePasses

Spec == Init /\ [][Next]_vars

-----------------------------------------------------------------------------
TypeOK ==
    /\ balances \in [Users -> Nat]
    /\ totalDeposited \in Nat
    /\ held \in Nat
    /\ wallet \in [Users -> Nat]
    /\ now \in Nat
    /\ lastFundingTime \in [Markets -> Nat]
    /\ cumulativeFundingIndex \in [Markets -> Int]
    /\ active \in SUBSET Markets
    /\ positions \in [Users -> [Markets -> [isOpen : BOOLEAN, isLong : BOOLEAN, size : Nat,
                        entryPrice : Nat, margin : Nat, entryFundingIdx : Int]]]
    /\ openInterest \in [Markets -> [BOOLEAN -> Nat]]
    /\ mark \in [Markets -> Prices]
    /\ index \in [Markets -> Prices]
    /\ paused \in BOOLEAN
    /\ opens \in Nat
    /\ gains \in Int
    /\ fresh \in [Users -> [Markets -> BOOLEAN]]

SizeOn(u, m, long) ==
    IF positions[u][m].isOpen /\ positions[u][m].isLong = long THEN positions[u][m].size ELSE 0

(* Open interest is the notional of the positions open on that side, and   *)
(* totalDeposited what the balances add up to, whatever the order of       *)
(* openings, closings and liquidations (openPosition, _closePosition).     *)
TotalsAgree ==
    /\ totalDeposited = SumFunctionOnSet(balances, Users)
    /\ \A m \in Markets, long \in BOOLEAN :
          openInterest[m][long] =
              SumFunctionOnSet([u \in Users |-> SizeOn(u, m, long)], Users)

MarginOf(u) == SumFunctionOnSet([m \in Markets |-> positions[u][m].margin], Markets)

(* No G$ appears or disappears in the vault: what it holds backs the       *)
(* balances and the margins of the open positions, but for what traders    *)
(* as a whole have won; a fee leaves the vault exactly once.               *)
Backed ==
    held + gains = totalDeposited + SumFunctionOnSet([u \in Users |-> MarginOf(u)], Users)

(* The funding index that the next call on a market will settle with. *)
NextFundingIndex(m) ==
    IF now - lastFundingTime[m] < 1 THEN cumulativeFundingIndex[m]
    ELSE cumulativeFundingIndex[m] + Rate(mark[m], index[m])

(* A position that was allowed to open can not be liquidated before prices *)
(* move or time passes: the largest leverage allowed leaves the maintenance *)
(* margin (openPosition, liquidate). Openings that leave an interval       *)
(* unsettled are excepted: the next call charges it to them.               *)
FreshPositionHealthy ==
    \A u \in Users, m \in Markets :
        fresh[u][m] =>
            ~Unhealthy(positions[u][m], NetPnL(positions[u][m], mark[m], NextFundingIndex(m)))

(* Closing and liquidating never cost a trader more than the margin posted: *)
(* a balance only sinks by the user's own withdrawal or new position.      *)
LossLimitedToMargin ==
    [][\A u \in Users :
          balances'[u] < balances[u] =>
              \/ wallet'[u] > wallet[u]
              \/ \E m \in Markets : ~positions[u][m].isOpen /\ positions'[u][m].isOpen]_vars
===============================================================================
