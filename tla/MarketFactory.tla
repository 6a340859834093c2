---------------------------- MODULE MarketFactory ----------------------------
(***************************************************************************)
(* Binary prediction markets: src/src/predict/MarketFactory.sol with the   *)
(* outcome tokens it mints (ConditionalTokens.sol).  Buyers lock 1 G$ per  *)
(* YES or NO token; after the market is resolved the winning tokens share  *)
(* the locked G$, after a void every token gets its G$ back.  The module   *)
(* holds the factory's actions; OptimisticResolver composes them with the  *)
(* resolver.                                                               *)
(***************************************************************************)
EXTENDS Integers, Functions, FiniteSets

CONSTANTS
    Users,           \* buyers, proposers and disputers
    Markets,         \* market ids
    Factory,         \* the factory's G$ account
    Resolver,        \* the OptimisticResolver's account
    Splitter,        \* the fee splitter, UBI pool and treasury
    Admin,
    REDEEM_FEE_BPS,
    BPS,
    Endowment,       \* G$ every user starts with
    MaxIssued,       \* bound on the tokens of one side of a market
    MaxTime          \* bound on the clock

Accounts == Users \cup {Factory, Resolver, Splitter}
Sides == {"YES", "NO"}
Statuses == {"None", "Open", "Closed", "ResolvedYES", "ResolvedNO", "Voided"}

ASSUME MarketConstants ==
    /\ IsFiniteSet(Users) /\ IsFiniteSet(Markets)
    /\ Factory \notin Users /\ Resolver \notin Users /\ Splitter \notin Users
    /\ Factory # Resolver /\ Factory # Splitter /\ Resolver # Splitter
    /\ REDEEM_FEE_BPS \in Nat /\ BPS \in Nat \ {0} /\ REDEEM_FEE_BPS <= BPS
    /\ Endowment \in Nat /\ MaxIssued \in Nat /\ MaxTime \in Nat

VARIABLES
    now,          \* block.timestamp
    goodDollar,   \* account -> G$ balance
    status,       \* market -> MarketStatus, "None" before it is created
    endTime,      \* market -> end of trading
    resolver,     \* market -> who may resolve it beside the admin
    issued,       \* market -> side -> totalYES / totalNO
    collateral,   \* market -> G$ locked
    tokens        \* market -> side -> user -> outcome tokens held

marketVars == <<status, endTime, resolver, issued, collateral, tokens>>

MarketTypeOK ==
    /\ now \in 0..MaxTime
    /\ goodDollar \in [Accounts -> Nat]
    /\ status \in [Markets -> Statuses]
    /\ endTime \in [Markets -> 0..MaxTime]
    /\ resolver \in [Markets -> {Resolver, Admin}]
    /\ issued \in [Markets -> [Sides -> Nat]]
    /\ collateral \in [Markets -> Nat]
    /\ tokens \in [Markets -> [Sides -> [Users -> Nat]]]

MarketInit ==
    /\ now = 0
    /\ goodDollar = [a \in Accounts |-> IF a \in Users THEN Endowment ELSE 0]
    /\ status = [m \in Markets |-> "None"]
    /\ endTime = [m \in Markets |-> 0]
    /\ resolver = [m \in Markets |-> Admin]
    /\ issued = [m \in Markets |-> [s \in Sides |-> 0]]
    /\ collateral = [m \in Markets |-> 0]
    /\ tokens = [m \in Markets |-> [s \in Sides |-> [u \in Users |-> 0]]]

-----------------------------------------------------------------------------
CreateMarket(m, end, who) ==
    /\ status[m] = "None"
    /\ end > now
    /\ status' = [status EXCEPT ![m] = "Open"]
    /\ endTime' = [endTime EXCEPT ![m] = end]
    /\ resolver' = [resolver EXCEPT ![m] = who]
    /\ UNCHANGED <<now, goodDollar, issued, collateral, tokens>>

Buy(u, m, side, amount) ==
    /\ amount > 0
    /\ status[m] = "Open"
    /\ now < endTime[m]
    /\ goodDollar[u] >= amount
    /\ issued[m][side] + amount <= MaxIssued
    /\ goodDollar' = [goodDollar EXCEPT ![u] = @ - amount, ![Factory] = @ + amount]
    /\ collateral' = [collateral EXCEPT ![m] = @ + amount]
    /\ issued' = [issued EXCEPT ![m][side] = @ + amount]
    /\ tokens' = [tokens EXCEPT ![m][side][u] = @ + amount]
    /\ UNCHANGED <<now, status, endTime, resolver>>

TransferToken(u, v, m, side, amount) ==
    /\ u # v
    /\ 0 < amount /\ amount <= tokens[m][side][u]
    /\ tokens' = [tokens EXCEPT ![m][side][u] = @ - amount, ![m][side][v] = @ + amount]
    /\ UNCHANGED <<now, goodDollar, status, endTime, resolver, issued, collateral>>

CloseMarket(m) ==
    /\ status[m] = "Open"
    /\ now >= endTime[m]
    /\ status' = [status EXCEPT ![m] = "Closed"]
    /\ UNCHANGED <<now, goodDollar, endTime, resolver, issued, collateral, tokens>>

(* Mutant: a market that was resolved or voided may be resolved again. *)
OnceClosed(m) == status[m] \in Statuses \ {"None", "Open"}

Resolvable(m) == status[m] = "Closed"

(* resolve, called by the admin or by the market's resolver. *)
ResolveMarket(m, caller, yesWon) ==
    /\ Resolvable(m)
    /\ caller \in {resolver[m], Admin}
    /\ status' = [status EXCEPT ![m] = IF yesWon THEN "ResolvedYES" ELSE "ResolvedNO"]
    /\ UNCHANGED <<endTime, resolver, issued, collateral, tokens>>

(* Mutant: a market may be voided whenever the admin likes. *)
NotYetVoided(m) == status[m] # "Voided"

Voidable(m) == status[m] \in {"Open", "Closed"}

VoidMarket(m) ==
    /\ Voidable(m)
    /\ status' = [status EXCEPT ![m] = "Voided"]
    /\ UNCHANGED <<now, goodDollar, endTime, resolver, issued, collateral, tokens>>

-----------------------------------------------------------------------------
(* splitFee returns the dApp's share to the account it names, which is the *)
(* paying contract itself.                                                 *)
DAppShare(fee) == fee - 2 * (fee \div 3)

Burnable(u, m, side, amount) == tokens[m][side][u] >= amount

VoidedSide(u, m, amount) == IF tokens[m]["YES"][u] >= amount THEN "YES" ELSE "NO"

RedeemVoided(u, m, amount) ==
    LET side == VoidedSide(u, m, amount)
    IN  /\ status[m] = "Voided"
        /\ amount > 0
        /\ Burnable(u, m, side, amount)
        /\ collateral[m] >= amount
        /\ goodDollar[Factory] >= amount
        /\ collateral' = [collateral EXCEPT ![m] = @ - amount]
        /\ tokens' = [tokens EXCEPT ![m][side][u] = @ - amount]
        /\ goodDollar' = [goodDollar EXCEPT ![Factory] = @ - amount, ![u] = @ + amount]
        /\ UNCHANGED <<now, status, endTime, resolver, issued>>

Gross(m, side, amount) == (amount * collateral[m]) \div issued[m][side]

(* Mutant: the payout is not taken off the market's collateral. *)
NoDecrement(gross) == 0

Decrement(gross) == gross

RedeemWon(u, m, amount) ==
    LET side == IF status[m] = "ResolvedYES" THEN "YES" ELSE "NO"
        gross == Gross(m, side, amount)
        fee == (gross * REDEEM_FEE_BPS) \div BPS
    IN  /\ status[m] \in {"ResolvedYES", "ResolvedNO"}
        /\ amount > 0
        /\ issued[m][side] > 0
        /\ Burnable(u, m, side, amount)
        /\ collateral[m] >= gross
        /\ goodDollar[Factory] >= gross
        /\ collateral' = [collateral EXCEPT ![m] = @ - Decrement(gross)]
        /\ tokens' = [tokens EXCEPT ![m][side][u] = @ - amount]
        /\ goodDollar' = [goodDollar EXCEPT ![Factory] = @ - gross + DAppShare(fee),
                                            ![Splitter] = @ + fee - DAppShare(fee),
                                            ![u] = @ + gross - fee]
        /\ UNCHANGED <<now, status, endTime, resolver, issued>>

MarketStep(u, m) ==
    \/ \E side \in Sides, amount \in 1..MaxIssued : Buy(u, m, side, amount)
    \/ \E v \in Users, side \in Sides, amount \in 1..MaxIssued : TransferToken(u, v, m, side, amount)
    \/ \E amount \in 1..MaxIssued : RedeemVoided(u, m, amount)
    \/ \E amount \in 1..MaxIssued : RedeemWon(u, m, amount)

-----------------------------------------------------------------------------
Held(m, side) == SumFunctionOnSet(tokens[m][side], Users)

(* While a market can still be voided, and after it was, every outcome     *)
(* token is backed by 1 G$ of its own market, through buys, token transfers *)
(* and redemptions of either side (buy, redeem, voidMarket).               *)
VoidRefundable ==
    \A m \in Markets :
        status[m] \in {"Open", "Closed", "Voided"} =>
            collateral[m] = Held(m, "YES") + Held(m, "NO")

(* All markets share one G$ balance: it covers the collateral of all of    *)
(* them, so no market is ever paid from another's.                         *)
FactorySolvent == goodDollar[Factory] >= SumFunctionOnSet(collateral, Markets)

(* "Pro-rata share of total collateral": a redemption pays the share of the *)
(* collateral that the redeemed tokens are of the winning tokens that are  *)
(* left, so that it does not matter who redeems first (redeem).            *)
RedeemIsProRata ==
    [][\A u \in Users, m \in Markets : \A amount \in 1..MaxIssued :
          RedeemWon(u, m, amount) =>
            LET side == IF status[m] = "ResolvedYES" THEN "YES" ELSE "NO"
            IN  collateral[m] - collateral'[m]
                  >= (amount * collateral[m]) \div Held(m, side)]_<<goodDollar, marketVars>>
=============================================================================
