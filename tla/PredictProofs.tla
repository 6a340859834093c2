---------------------------- MODULE PredictProofs ----------------------------
(***************************************************************************)
(* What holds of the prediction markets and their resolver for any number   *)
(* of users and markets, any fee and any bonds: tokens stay backed, the two *)
(* shared balances cover what they owe, and a final resolution agrees with  *)
(* its market.                                                             *)
(***************************************************************************)
EXTENDS OptimisticResolver, SumLemmas

(* VoidRefundable holds before creation too: nobody has tokens then.       *)
Backed ==
    \A m \in Markets :
        status[m] \notin {"ResolvedYES", "ResolvedNO"} =>
            collateral[m] = Held(m, "YES") + Held(m, "NO")

(* What the resolver relies on when it pays: bonds are there only with the *)
(* account that placed them.                                               *)
ResolutionsFit ==
    \A m \in Markets :
        LET r == resolutions[m] IN
        /\ r.status = "None" => r.proposerBond = 0 /\ r.disputerBond = 0
        /\ r.status = "Proposed" => r.disputerBond = 0
        /\ r.status \in {"Proposed", "Disputed"} => r.proposer \in Users
        /\ r.status = "Disputed" => r.disputer \in Users

IInv ==
    /\ TypeOK
    /\ Backed
    /\ FactorySolvent
    /\ ResolutionsFit
    /\ BondsHeld
    /\ FinalAgrees

-----------------------------------------------------------------------------
(* Arithmetic. *)

(* splitFee gives back at most the fee. *)
LEMMA ShareBounded ==
    ASSUME NEW fee \in Nat
    PROVE  DAppShare(fee) \in Nat /\ DAppShare(fee) <= fee
  BY DEF DAppShare

(* A fee of at most BPS out of BPS does not exceed what it is taken from.   *)
LEMMA FeeBounded ==
    ASSUME NEW g \in Nat
    PROVE  (g * REDEEM_FEE_BPS) \div BPS \in Nat /\ (g * REDEEM_FEE_BPS) \div BPS <= g
  <1>1. REDEEM_FEE_BPS \in Nat /\ BPS \in Nat /\ BPS > 0 /\ REDEEM_FEE_BPS <= BPS
    BY MarketConstants
  <1> DEFINE p == g * REDEEM_FEE_BPS
             q == p \div BPS
  <1>2. p \in Nat /\ p <= g * BPS
    BY <1>1
  <1>3. g * BPS \in Nat
    BY <1>1
  <1> HIDE DEF p
  <1>4. q \in Nat /\ BPS * q <= p
    BY <1>1, <1>2
  <1> HIDE DEF q
  <1>5. ASSUME q >= g + 1 PROVE FALSE
    <2>1. BPS * q >= BPS * (g + 1)
      BY <1>1, <1>4, <1>5
    <2>2. BPS * (g + 1) = g * BPS + BPS
      BY <1>1
    <2>3. BPS * q \in Int
      BY <1>1, <1>4
    <2> QED BY <1>1, <1>2, <1>3, <1>4, <2>1, <2>2, <2>3
  <1>6. q \in Nat /\ q <= g
    BY <1>4, <1>5
  <1> QED BY <1>6 DEF q, p

(* A quotient of naturals is a natural. *)
LEMMA QuotientNat ==
    ASSUME NEW a \in Nat, NEW b \in Nat, NEW c \in Nat, c > 0
    PROVE  (a * b) \div c \in Nat
  <1> DEFINE p == a * b
  <1>1. p \in Nat
    OBVIOUS
  <1> HIDE DEF p
  <1>2. p \div c \in Nat
    BY <1>1
  <1> QED BY <1>2 DEF p

(* Two tables of naturals that differ in one entry. *)
LEMMA OneReplaced ==
    ASSUME NEW D, IsFiniteSet(D), NEW f \in [D -> Nat], NEW g \in [D -> Nat],
           NEW x \in D, \A y \in D \ {x} : f[y] = g[y]
    PROVE  /\ SumFunctionOnSet(f, D) \in Nat
           /\ SumFunctionOnSet(g, D) = SumFunctionOnSet(f, D) - f[x] + g[x]
  <1>1. f \in [D -> Int] /\ g \in [D -> Int]
    OBVIOUS
  <1>2. SumFunctionOnSet(g, D) = SumFunctionOnSet(f, D) - f[x] + g[x]
    BY <1>1, SumUpdate
  <1>3. SumFunctionOnSet(f, D) \in Nat
    BY SumOfNats
  <1> QED BY <1>2, <1>3

-----------------------------------------------------------------------------
(* Parts of the invariant that a step leaves alone. *)

LEMMA BackedKept ==
    ASSUME Backed, UNCHANGED <<tokens, collateral>>,
           \A m \in Markets : status'[m] \notin {"ResolvedYES", "ResolvedNO"}
                                => status[m] \notin {"ResolvedYES", "ResolvedNO"}
    PROVE  Backed'
  BY DEF Backed, Held

LEMMA SolventKept ==
    ASSUME TypeOK, FactorySolvent, UNCHANGED collateral,
           goodDollar'[Factory] \in Int, goodDollar'[Factory] >= goodDollar[Factory]
    PROVE  FactorySolvent'
  <1>1. IsFiniteSet(Markets) /\ collateral \in [Markets -> Nat] /\ goodDollar[Factory] \in Nat
    BY MarketConstants DEF TypeOK, MarketTypeOK, Accounts
  <1>2. collateral \in [Markets -> Int]
    BY <1>1
  <1>3. SumFunctionOnSet(collateral, Markets) \in Int
    BY <1>1, <1>2, SumType
  <1> QED BY <1>1, <1>3 DEF FactorySolvent

LiveOf(r) == IF r.status \in {"Proposed", "Disputed"} THEN r.proposerBond + r.disputerBond ELSE 0
LiveTable(rs) == [m \in Markets |-> LiveOf(rs[m])]

LEMMA LiveNat ==
    ASSUME NEW r \in Resolutions
    PROVE  LiveOf(r) \in Nat
  <1>1. r.proposerBond \in Bonds \cup {0} /\ r.disputerBond \in Bonds \cup {0}
    BY DEF Resolutions
  <1>2. Bonds \cup {0} \subseteq Nat
    BY ResolverConstants
  <1>3. r.proposerBond \in Nat /\ r.disputerBond \in Nat
    BY <1>1, <1>2
  <1> QED BY <1>3 DEF LiveOf

LEMMA BondsAreTable ==
    BondsHeld <=> goodDollar[Resolver] >= SumFunctionOnSet(LiveTable(resolutions), Markets)
  <1>1. [m \in Markets |-> LiveBonds(m)] = LiveTable(resolutions)
    BY DEF LiveBonds, LiveTable, LiveOf
  <1> QED BY <1>1 DEF BondsHeld

(* The resolver's balance follows the live bonds of the one market whose    *)
(* resolution a step changes.                                              *)
LEMMA BondsMoved ==
    ASSUME TypeOK, BondsHeld, NEW m \in Markets, NEW r \in Resolutions,
           resolutions' = [resolutions EXCEPT ![m] = r],
           goodDollar'[Resolver] \in Int,
           goodDollar'[Resolver] - goodDollar[Resolver] >= LiveOf(r) - LiveOf(resolutions[m])
    PROVE  BondsHeld'
  <1> DEFINE f == LiveTable(resolutions)
             g == LiveTable(resolutions')
  <1>1. /\ IsFiniteSet(Markets) /\ resolutions \in [Markets -> Resolutions]
        /\ goodDollar[Resolver] \in Nat
    BY MarketConstants DEF TypeOK, MarketTypeOK, Accounts
  <1>2. f \in [Markets -> Nat] /\ f[m] = LiveOf(resolutions[m])
    BY <1>1, LiveNat DEF LiveTable
  <1>3. LiveOf(r) \in Nat
    BY LiveNat
  <1>4. g \in [Markets -> Nat] /\ g[m] = LiveOf(r) /\ \A k \in Markets \ {m} : f[k] = g[k]
    <2>1. \A k \in Markets : resolutions'[k] \in Resolutions /\ LiveOf(resolutions'[k]) \in Nat
      BY <1>1, LiveNat
    <2> QED BY <1>1, <2>1 DEF LiveTable
  <1>5. goodDollar[Resolver] >= SumFunctionOnSet(f, Markets)
    BY BondsAreTable
  <1>6. SUFFICES goodDollar'[Resolver] >= SumFunctionOnSet(g, Markets)
    <2>1. [k \in Markets |-> LiveBonds(k)]' = g
      BY DEF LiveBonds, LiveTable, LiveOf
    <2> QED BY <2>1 DEF BondsHeld
  <1> HIDE DEF f, g
  <1>7. /\ SumFunctionOnSet(f, Markets) \in Nat
        /\ SumFunctionOnSet(g, Markets) = SumFunctionOnSet(f, Markets) - f[m] + g[m]
    BY <1>1, <1>2, <1>4, OneReplaced
  <1> QED BY <1>1, <1>2, <1>3, <1>4, <1>5, <1>7

LEMMA BondsKept ==
    ASSUME TypeOK, BondsHeld, UNCHANGED resolutions,
           goodDollar'[Resolver] \in Int, goodDollar'[Resolver] >= goodDollar[Resolver]
    PROVE  BondsHeld'
  <1> DEFINE f == LiveTable(resolutions)
  <1>1. /\ IsFiniteSet(Markets) /\ resolutions \in [Markets -> Resolutions]
        /\ goodDollar[Resolver] \in Nat
    BY MarketConstants DEF TypeOK, MarketTypeOK, Accounts
  <1>2. f \in [Markets -> Nat]
    BY <1>1, LiveNat DEF LiveTable
  <1>3. f \in [Markets -> Int]
    BY <1>2
  <1>4. goodDollar[Resolver] >= SumFunctionOnSet(f, Markets)
    BY BondsAreTable
  <1>5. SUFFICES goodDollar'[Resolver] >= SumFunctionOnSet(f, Markets)
    <2>1. [k \in Markets |-> LiveBonds(k)]' = f
      BY DEF LiveBonds, LiveTable, LiveOf
    <2> QED BY <2>1 DEF BondsHeld
  <1> HIDE DEF f
  <1>6. SumFunctionOnSet(f, Markets) \in Int
    BY <1>1, <1>3, SumType
  <1> QED BY <1>1, <1>4, <1>6

-----------------------------------------------------------------------------
(* Steps that only move a market on. *)

LEMMA MarketMovesOn ==
    ASSUME IInv, NEW m \in Markets, NEW s \in Statuses,
           status[m] \notin {"ResolvedYES", "ResolvedNO"},
           status' = [status EXCEPT ![m] = s],
           endTime' \in [Markets -> 0..MaxTime], resolver' \in [Markets -> {Resolver, Admin}],
           UNCHANGED <<now, goodDollar, issued, collateral, tokens, resolverVars>>
    PROVE  IInv'
  <1>0. /\ TypeOK /\ Backed /\ FactorySolvent /\ ResolutionsFit /\ BondsHeld /\ FinalAgrees
        /\ status \in [Markets -> Statuses] /\ goodDollar \in [Accounts -> Nat]
        /\ UNCHANGED <<bondAmount, disputeWindow, resolutionRequested, resolutions>>
    BY DEF IInv, TypeOK, MarketTypeOK, resolverVars
  <1>1. TypeOK'
    BY <1>0 DEF TypeOK, MarketTypeOK
  <1>2. Backed'
    BY <1>0, BackedKept
  <1>3. goodDollar[Factory] \in Nat /\ goodDollar[Resolver] \in Nat
    BY <1>0 DEF Accounts
  <1>4. FactorySolvent'
    BY <1>0, <1>3, SolventKept
  <1>5. ResolutionsFit'
    BY <1>0 DEF ResolutionsFit
  <1>6. BondsHeld'
    BY <1>0, <1>3, BondsKept
  <1>7. FinalAgrees'
    <2> SUFFICES ASSUME NEW k \in Markets, resolutions[k].status = "Finalized"
                 PROVE  status'[k] = IF resolutions[k].finalOutcome THEN "ResolvedYES" ELSE "ResolvedNO"
      BY <1>0 DEF FinalAgrees
    <2>1. status[k] = IF resolutions[k].finalOutcome THEN "ResolvedYES" ELSE "ResolvedNO"
      BY <1>0 DEF FinalAgrees
    <2>2. k # m
      BY <2>1
    <2> QED BY <1>0, <2>1, <2>2
  <1> QED BY <1>1, <1>2, <1>4, <1>5, <1>6, <1>7 DEF IInv

LEMMA AdminStepSafe ==
    ASSUME IInv, NEW m \in Markets, AdminStep(m), UNCHANGED resolverVars
    PROVE  IInv'
  <1>0. endTime \in [Markets -> 0..MaxTime] /\ resolver \in [Markets -> {Resolver, Admin}]
        /\ MaxTime \in Nat
    BY MarketConstants DEF IInv, TypeOK, MarketTypeOK
  <1>1. ASSUME NEW end \in 1..MaxTime, NEW who \in {Resolver, Admin}, CreateMarket(m, end, who)
        PROVE  IInv'
    <2>1. endTime' \in [Markets -> 0..MaxTime]
      BY <1>0, <1>1 DEF CreateMarket
    <2>2. resolver' \in [Markets -> {Resolver, Admin}]
      BY <1>0, <1>1 DEF CreateMarket
    <2>3. "Open" \in Statuses /\ status[m] \notin {"ResolvedYES", "ResolvedNO"}
      BY <1>1 DEF CreateMarket, Statuses
    <2>4. status' = [status EXCEPT ![m] = "Open"]
          /\ UNCHANGED <<now, goodDollar, issued, collateral, tokens, resolverVars>>
      BY <1>1 DEF CreateMarket
    <2> QED BY <2>1, <2>2, <2>3, <2>4, MarketMovesOn
  <1>2. ASSUME CloseMarket(m) PROVE IInv'
    <2>1. "Closed" \in Statuses /\ status[m] \notin {"ResolvedYES", "ResolvedNO"}
      BY <1>2 DEF CloseMarket, Statuses
    <2>2. /\ status' = [status EXCEPT ![m] = "Closed"]
          /\ UNCHANGED <<now, goodDollar, issued, collateral, tokens, resolverVars>>
          /\ endTime' \in [Markets -> 0..MaxTime] /\ resolver' \in [Markets -> {Resolver, Admin}]
      BY <1>0, <1>2 DEF CloseMarket
    <2> QED BY <2>1, <2>2, MarketMovesOn
  <1>3. ASSUME VoidMarket(m) PROVE IInv'
    <2>1. "Voided" \in Statuses /\ status[m] \notin {"ResolvedYES", "ResolvedNO"}
      BY <1>3 DEF VoidMarket, Voidable, Statuses
    <2>2. /\ status' = [status EXCEPT ![m] = "Voided"]
          /\ UNCHANGED <<now, goodDollar, issued, collateral, tokens, resolverVars>>
          /\ endTime' \in [Markets -> 0..MaxTime] /\ resolver' \in [Markets -> {Resolver, Admin}]
      BY <1>0, <1>3 DEF VoidMarket
    <2> QED BY <2>1, <2>2, MarketMovesOn
  <1>4. ASSUME NEW yesWon \in BOOLEAN, ResolveMarket(m, Admin, yesWon), UNCHANGED <<now, goodDollar>>
        PROVE  IInv'
    <2>1. PICK s \in Statuses : s = IF yesWon THEN "ResolvedYES" ELSE "ResolvedNO"
      BY DEF Statuses
    <2>2. status[m] \notin {"ResolvedYES", "ResolvedNO"}
      BY <1>4 DEF ResolveMarket, Resolvable
    <2>3. /\ status' = [status EXCEPT ![m] = s]
          /\ UNCHANGED <<now, goodDollar, issued, collateral, tokens, resolverVars>>
          /\ endTime' \in [Markets -> 0..MaxTime] /\ resolver' \in [Markets -> {Resolver, Admin}]
      BY <1>0, <1>4, <2>1 DEF ResolveMarket
    <2> QED BY <2>2, <2>3, MarketMovesOn
  <1> QED BY <1>1, <1>2, <1>3, <1>4 DEF AdminStep

-----------------------------------------------------------------------------
(* Steps of the resolver. *)

Fits(r) ==
    /\ r.status = "None" => r.proposerBond = 0 /\ r.disputerBond = 0
    /\ r.status = "Proposed" => r.disputerBond = 0
    /\ r.status \in {"Proposed", "Disputed"} => r.proposer \in Users
    /\ r.status = "Disputed" => r.disputer \in Users

(* A step that changes the resolution of one market, and of its bonds only  *)
(* what the resolver's balance follows.                                    *)
LEMMA ResolutionMoves ==
    ASSUME IInv, NEW m \in Markets, NEW r \in Resolutions, Fits(r),
           resolutions' = [resolutions EXCEPT ![m] = r],
           bondAmount' \in Bonds, disputeWindow' \in Windows,
           resolutionRequested' \in [Markets -> BOOLEAN],
           goodDollar' \in [Accounts -> Nat],
           goodDollar'[Factory] >= goodDollar[Factory],
           goodDollar'[Resolver] - goodDollar[Resolver] >= LiveOf(r) - LiveOf(resolutions[m]),
           UNCHANGED <<now, endTime, resolver, issued, collateral, tokens>>,
           \/ UNCHANGED status /\ r.status # "Finalized"
           \/ r.status = "Finalized" /\ ResolveMarket(m, Resolver, r.finalOutcome)
    PROVE  IInv'
  <1>0. /\ TypeOK /\ Backed /\ FactorySolvent /\ ResolutionsFit /\ BondsHeld /\ FinalAgrees
        /\ status \in [Markets -> Statuses] /\ resolutions \in [Markets -> Resolutions]
    BY DEF IInv, TypeOK, MarketTypeOK
  <1>1. resolutions' \in [Markets -> Resolutions]
    BY <1>0
  <1>2. status' \in [Markets -> Statuses]
    <2>1. CASE UNCHANGED status
      BY <1>0, <2>1
    <2>2. CASE ResolveMarket(m, Resolver, r.finalOutcome)
      BY <1>0, <2>2 DEF ResolveMarket, Statuses
    <2> QED BY <2>1, <2>2
  <1>3. TypeOK'
    BY <1>0, <1>1, <1>2 DEF TypeOK, MarketTypeOK
  <1>4. \A k \in Markets : status'[k] \notin {"ResolvedYES", "ResolvedNO"}
                                => status[k] \notin {"ResolvedYES", "ResolvedNO"}
    <2>1. CASE UNCHANGED status
      BY <2>1
    <2>2. CASE ResolveMarket(m, Resolver, r.finalOutcome)
      BY <1>0, <2>2 DEF ResolveMarket
    <2> QED BY <2>1, <2>2
  <1>5. Backed'
    BY <1>0, <1>4, BackedKept
  <1>6. goodDollar'[Factory] \in Int /\ goodDollar'[Resolver] \in Int
    BY DEF Accounts
  <1>7. FactorySolvent'
    BY <1>0, <1>6, SolventKept
  <1>8. ResolutionsFit'
    BY <1>0 DEF ResolutionsFit, Fits
  <1>9. BondsHeld'
    BY <1>0, <1>6, BondsMoved
  <1>10. FinalAgrees'
    <2> SUFFICES ASSUME NEW k \in Markets, resolutions'[k].status = "Finalized"
                 PROVE  status'[k] = IF resolutions'[k].finalOutcome THEN "ResolvedYES" ELSE "ResolvedNO"
      BY DEF FinalAgrees
    <2>1. CASE k = m
      <3>1. resolutions'[k] = r
        BY <1>0, <2>1
      <3>2. ResolveMarket(m, Resolver, r.finalOutcome)
        BY <3>1
      <3> QED BY <1>0, <2>1, <3>1, <3>2 DEF ResolveMarket
    <2>2. CASE k # m
      <3>1. resolutions'[k] = resolutions[k]
        BY <1>0, <2>2
      <3>2. status[k] = IF resolutions[k].finalOutcome THEN "ResolvedYES" ELSE "ResolvedNO"
        BY <1>0, <3>1 DEF FinalAgrees
      <3>3. status'[k] = status[k]
        BY <1>0, <2>2 DEF ResolveMarket
      <3> QED BY <3>1, <3>2, <3>3
    <2> QED BY <2>1, <2>2
  <1> QED BY <1>3, <1>5, <1>7, <1>8, <1>9, <1>10 DEF IInv

(* The facts a resolver step starts from. *)
LEMMA ResolverFacts ==
    ASSUME IInv, NEW m \in Markets
    PROVE  /\ resolutions \in [Markets -> Resolutions] /\ resolutions[m] \in Resolutions
           /\ Fits(resolutions[m])
           /\ goodDollar \in [Accounts -> Nat]
           /\ \A u \in Users : u \in Accounts /\ u # Factory /\ u # Resolver /\ u # Splitter
           /\ {Factory, Resolver, Splitter} \subseteq Accounts
           /\ Factory # Resolver /\ Factory # Splitter /\ Resolver # Splitter
           /\ resolutions[m].proposerBond \in Nat /\ resolutions[m].disputerBond \in Nat
           /\ now \in 0..MaxTime /\ bondAmount \in Bonds /\ bondAmount \in Nat
           /\ disputeWindow \in Windows /\ resolutionRequested \in [Markets -> BOOLEAN]
  <1>1. resolutions \in [Markets -> Resolutions] /\ resolutions[m] \in Resolutions
    BY DEF IInv, TypeOK
  <1>2. resolutions[m].proposerBond \in Bonds \cup {0} /\ resolutions[m].disputerBond \in Bonds \cup {0}
    BY <1>1 DEF Resolutions
  <1>3. Bonds \cup {0} \subseteq Nat
    BY ResolverConstants
  <1>4. resolutions[m].proposerBond \in Nat /\ resolutions[m].disputerBond \in Nat
    BY <1>2, <1>3
  <1>5. bondAmount \in Bonds /\ bondAmount \in Nat /\ disputeWindow \in Windows
        /\ resolutionRequested \in [Markets -> BOOLEAN]
    BY <1>3 DEF IInv, TypeOK
  <1>6. goodDollar \in [Accounts -> Nat] /\ now \in 0..MaxTime
    BY DEF IInv, TypeOK, MarketTypeOK
  <1>7. \A u \in Users : u \in Accounts /\ u # Factory /\ u # Resolver /\ u # Splitter
    BY MarketConstants DEF Accounts
  <1>8. {Factory, Resolver, Splitter} \subseteq Accounts
        /\ Factory # Resolver /\ Factory # Splitter /\ Resolver # Splitter
    BY MarketConstants DEF Accounts
  <1>9. Fits(resolutions[m])
    BY DEF IInv, ResolutionsFit, Fits
  <1> QED BY <1>1, <1>4, <1>5, <1>6, <1>7, <1>8, <1>9

LEMMA ProposeSafe ==
    ASSUME IInv, NEW u \in Users, NEW m \in Markets, NEW yesWon \in BOOLEAN,
           ProposeResolution(u, m, yesWon)
    PROVE  IInv'
  <1> DEFINE r == [NoResolution EXCEPT !.status = "Proposed", !.proposedOutcome = yesWon,
                       !.proposer = u, !.proposerBond = bondAmount, !.proposalTime = now]
  <1>0. /\ resolutions \in [Markets -> Resolutions] /\ Fits(resolutions[m])
        /\ goodDollar \in [Accounts -> Nat] /\ u \in Accounts /\ u # Factory /\ u # Resolver
        /\ Factory \in Accounts /\ Resolver \in Accounts /\ Factory # Resolver
        /\ now \in 0..MaxTime /\ bondAmount \in Bonds /\ bondAmount \in Nat
        /\ disputeWindow \in Windows /\ resolutionRequested \in [Markets -> BOOLEAN]
    BY ResolverFacts
  <1>1. /\ resolutions[m].status = "None" /\ goodDollar[u] >= bondAmount
        /\ goodDollar' = [goodDollar EXCEPT ![u] = @ - bondAmount, ![Resolver] = @ + bondAmount]
        /\ resolutions' = [resolutions EXCEPT ![m] = r]
        /\ UNCHANGED <<now, marketVars, bondAmount, disputeWindow, resolutionRequested>>
    BY DEF ProposeResolution
  <1>2. /\ NoResolution \in Resolutions
        /\ NoResolution.disputerBond = 0
    <2>1. 0 \in 0..MaxTime
      BY MarketConstants
    <2> QED BY <2>1 DEF NoResolution, Resolutions
  <1>3. r \in Resolutions
    BY <1>0, <1>2 DEF Resolutions
  <1>a. /\ r.status = "Proposed" /\ r.proposer = u /\ r.proposerBond = bondAmount
        /\ r.disputerBond = 0
    BY <1>2 DEF Resolutions
  <1>4. Fits(r) /\ LiveOf(r) = bondAmount /\ r.status # "Finalized"
    BY <1>0, <1>a DEF Fits, LiveOf
  <1>5. LiveOf(resolutions[m]) = 0
    BY <1>1 DEF LiveOf
  <1>6. goodDollar' \in [Accounts -> Nat] /\ goodDollar'[Factory] = goodDollar[Factory]
        /\ goodDollar'[Resolver] = goodDollar[Resolver] + bondAmount
    BY <1>0, <1>1
  <1>7. goodDollar[Factory] \in Nat /\ goodDollar[Resolver] \in Nat
    BY <1>0
  <1> HIDE DEF r
  <1>8. goodDollar'[Factory] >= goodDollar[Factory]
        /\ goodDollar'[Resolver] - goodDollar[Resolver] >= LiveOf(r) - LiveOf(resolutions[m])
    BY <1>0, <1>4, <1>5, <1>6, <1>7
  <1>9. /\ UNCHANGED <<now, endTime, resolver, issued, collateral, tokens>>
        /\ UNCHANGED status /\ r.status # "Finalized"
        /\ bondAmount' \in Bonds /\ disputeWindow' \in Windows
        /\ resolutionRequested' \in [Markets -> BOOLEAN]
    BY <1>0, <1>1, <1>4 DEF marketVars
  <1> QED BY <1>1, <1>3, <1>4, <1>6, <1>8, <1>9, ResolutionMoves

LEMMA DisputeSafe ==
    ASSUME IInv, NEW u \in Users, NEW m \in Markets, DisputeResolution(u, m)
    PROVE  IInv'
  <1> DEFINE r == [resolutions[m] EXCEPT !.status = "Disputed", !.disputer = u,
                       !.disputerBond = RequiredBond(m)]
             bond == resolutions[m].proposerBond
  <1>0. /\ resolutions \in [Markets -> Resolutions] /\ resolutions[m] \in Resolutions
        /\ Fits(resolutions[m]) /\ bond \in Nat
        /\ goodDollar \in [Accounts -> Nat] /\ u \in Accounts /\ u # Factory /\ u # Resolver
        /\ Factory \in Accounts /\ Resolver \in Accounts /\ Factory # Resolver
        /\ bondAmount \in Bonds /\ disputeWindow \in Windows
        /\ resolutionRequested \in [Markets -> BOOLEAN]
    BY ResolverFacts
  <1>a. /\ resolutions[m].status = "Proposed" /\ goodDollar[u] >= bond
        /\ goodDollar' = [goodDollar EXCEPT ![u] = @ - bond, ![Resolver] = @ + bond]
        /\ UNCHANGED <<now, marketVars, bondAmount, disputeWindow, resolutionRequested>>
    BY DEF DisputeResolution, RequiredBond
  <1>b. resolutions' = [resolutions EXCEPT ![m].status = "Disputed", ![m].disputer = u,
                                           ![m].disputerBond = RequiredBond(m)]
    BY DEF DisputeResolution
  <1>c. resolutions' = [resolutions EXCEPT ![m] = r]
    BY <1>0, <1>b
  <1>1. /\ resolutions[m].status = "Proposed" /\ goodDollar[u] >= bond
        /\ goodDollar' = [goodDollar EXCEPT ![u] = @ - bond, ![Resolver] = @ + bond]
        /\ resolutions' = [resolutions EXCEPT ![m] = r]
        /\ UNCHANGED <<now, marketVars, bondAmount, disputeWindow, resolutionRequested>>
    BY <1>a, <1>c
  <1>2. r \in Resolutions
    <2>1. bond \in Bonds \cup {0}
      BY <1>0 DEF Resolutions
    <2> QED BY <1>0, <2>1 DEF Resolutions, RequiredBond
  <1>3. /\ r.status = "Disputed" /\ r.disputer = u /\ r.disputerBond = bond
        /\ r.proposer = resolutions[m].proposer /\ r.proposerBond = bond
    BY <1>0 DEF Resolutions, RequiredBond
  <1>4. resolutions[m].proposer \in Users /\ resolutions[m].disputerBond = 0
    BY <1>0, <1>1 DEF Fits
  <1> HIDE DEF r
  <1>5. Fits(r) /\ LiveOf(r) = bond + bond /\ LiveOf(resolutions[m]) = bond
    BY <1>0, <1>1, <1>3, <1>4 DEF Fits, LiveOf
  <1>6. goodDollar' \in [Accounts -> Nat] /\ goodDollar'[Factory] = goodDollar[Factory]
        /\ goodDollar'[Resolver] = goodDollar[Resolver] + bond
    BY <1>0, <1>1
  <1>7. goodDollar[Factory] \in Nat /\ goodDollar[Resolver] \in Nat
    BY <1>0
  <1>8. goodDollar'[Factory] >= goodDollar[Factory]
        /\ goodDollar'[Resolver] - goodDollar[Resolver] >= LiveOf(r) - LiveOf(resolutions[m])
    BY <1>0, <1>5, <1>6, <1>7
  <1>9. /\ UNCHANGED <<now, endTime, resolver, issued, collateral, tokens>>
        /\ UNCHANGED status /\ r.status # "Finalized"
        /\ bondAmount' \in Bonds /\ disputeWindow' \in Windows
        /\ resolutionRequested' \in [Markets -> BOOLEAN]
    BY <1>0, <1>1, <1>3 DEF marketVars
  <1> QED BY <1>1, <1>2, <1>5, <1>6, <1>8, <1>9, ResolutionMoves

(* A final resolution of market m with outcome o: the resolver pays out at  *)
(* most the live bonds of m.                                               *)
LEMMA Finalizes ==
    ASSUME IInv, NEW m \in Markets, NEW o \in BOOLEAN,
           resolutions[m].status # "Finalized",
           Finalize(m, o), ResolveMarket(m, Resolver, o),
           goodDollar' \in [Accounts -> Nat],
           goodDollar'[Factory] >= goodDollar[Factory],
           goodDollar'[Resolver] - goodDollar[Resolver] >= 0 - LiveOf(resolutions[m]),
           UNCHANGED <<now, bondAmount, disputeWindow, resolutionRequested>>
    PROVE  IInv'
  <1> DEFINE r == [resolutions[m] EXCEPT !.status = "Finalized", !.finalOutcome = o]
  <1>0. /\ resolutions \in [Markets -> Resolutions] /\ resolutions[m] \in Resolutions
        /\ bondAmount \in Bonds /\ disputeWindow \in Windows
        /\ resolutionRequested \in [Markets -> BOOLEAN]
        /\ goodDollar \in [Accounts -> Nat] /\ Resolver \in Accounts
    BY ResolverFacts
  <1>1. resolutions' = [resolutions EXCEPT ![m] = r]
    BY <1>0 DEF Finalize
  <1>2. r \in Resolutions
    BY <1>0 DEF Resolutions
  <1>3. r.status = "Finalized" /\ r.finalOutcome = o
    BY <1>0 DEF Resolutions
  <1>4. LiveOf(resolutions[m]) \in Nat
    BY <1>0, LiveNat
  <1> HIDE DEF r
  <1>5. Fits(r) /\ LiveOf(r) = 0
    BY <1>3 DEF Fits, LiveOf
  <1>6. goodDollar'[Resolver] \in Nat /\ goodDollar[Resolver] \in Nat
    BY <1>0
  <1>7. goodDollar'[Resolver] - goodDollar[Resolver] >= LiveOf(r) - LiveOf(resolutions[m])
    BY <1>4, <1>5, <1>6
  <1>8. /\ UNCHANGED <<now, endTime, resolver, issued, collateral, tokens>>
        /\ bondAmount' \in Bonds /\ disputeWindow' \in Windows
        /\ resolutionRequested' \in [Markets -> BOOLEAN]
    BY <1>0 DEF ResolveMarket
  <1>9. r.status = "Finalized" /\ ResolveMarket(m, Resolver, r.finalOutcome)
    BY <1>3
  <1> QED BY <1>1, <1>2, <1>5, <1>7, <1>8, <1>9, ResolutionMoves

LEMMA FinalizeSafe ==
    ASSUME IInv, NEW m \in Markets, FinalizeResolution(m)
    PROVE  IInv'
  <1> DEFINE bond == resolutions[m].proposerBond
             o == resolutions[m].proposedOutcome
  <1>0. /\ resolutions[m] \in Resolutions /\ Fits(resolutions[m])
        /\ bond \in Nat /\ resolutions[m].disputerBond \in Nat
        /\ goodDollar \in [Accounts -> Nat]
        /\ \A u \in Users : u \in Accounts /\ u # Factory /\ u # Resolver
        /\ Factory \in Accounts /\ Resolver \in Accounts /\ Factory # Resolver
    BY ResolverFacts
  <1>1. /\ resolutions[m].status = "Proposed" /\ goodDollar[Resolver] >= bond
        /\ goodDollar' = [goodDollar EXCEPT ![Resolver] = @ - bond,
                                            ![resolutions[m].proposer] = @ + bond]
        /\ Finalize(m, o) /\ ResolveMarket(m, Resolver, o)
        /\ UNCHANGED <<now, bondAmount, disputeWindow, resolutionRequested>>
    BY DEF FinalizeResolution
  <1>2. o \in BOOLEAN
    BY <1>0 DEF Resolutions
  <1>3. PICK u \in Users : u = resolutions[m].proposer
    BY <1>0, <1>1 DEF Fits
  <1>4. LiveOf(resolutions[m]) = bond + resolutions[m].disputerBond
    BY <1>1 DEF LiveOf
  <1> HIDE DEF bond, o
  <1>5. goodDollar' = [goodDollar EXCEPT ![Resolver] = @ - bond, ![u] = @ + bond]
    BY <1>1, <1>3
  <1>a. u \in Accounts /\ u # Factory /\ u # Resolver /\ goodDollar[Resolver] >= bond
    BY <1>0, <1>1
  <1>6. goodDollar' \in [Accounts -> Nat] /\ goodDollar'[Factory] = goodDollar[Factory]
        /\ goodDollar'[Resolver] = goodDollar[Resolver] - bond
    BY <1>0, <1>5, <1>a
  <1>7. goodDollar[Factory] \in Nat /\ goodDollar[Resolver] \in Nat
    BY <1>0
  <1>8. goodDollar'[Factory] >= goodDollar[Factory]
        /\ goodDollar'[Resolver] - goodDollar[Resolver] >= 0 - LiveOf(resolutions[m])
    BY <1>0, <1>4, <1>6, <1>7
  <1>9. resolutions[m].status # "Finalized"
    BY <1>1
  <1> QED BY <1>1, <1>2, <1>6, <1>8, <1>9, Finalizes

LEMMA AdminResolveSafe ==
    ASSUME IInv, NEW m \in Markets, NEW yesWon \in BOOLEAN, AdminResolveDispute(m, yesWon)
    PROVE  IInv'
  <1> DEFINE pBond == resolutions[m].proposerBond
             dBond == resolutions[m].disputerBond
             right == resolutions[m].proposedOutcome = yesWon
             winner == IF right THEN resolutions[m].proposer ELSE resolutions[m].disputer
             winnerBond == IF right THEN pBond ELSE dBond
             loserBond == IF right THEN dBond ELSE pBond
             paid == winnerBond + WinnerShare(loserBond)
             ubi == loserBond - loserBond \div 2
  <1>0. /\ Fits(resolutions[m]) /\ pBond \in Nat /\ dBond \in Nat
        /\ goodDollar \in [Accounts -> Nat]
        /\ \A u \in Users : u \in Accounts /\ u # Factory /\ u # Resolver /\ u # Splitter
        /\ Factory \in Accounts /\ Resolver \in Accounts /\ Splitter \in Accounts
        /\ Factory # Resolver /\ Factory # Splitter /\ Resolver # Splitter
    BY ResolverFacts
  <1>1. /\ resolutions[m].status = "Disputed" /\ goodDollar[Resolver] >= paid + ubi
        /\ goodDollar' = [goodDollar EXCEPT ![Resolver] = @ - paid - ubi + DAppShare(ubi),
                                            ![winner] = @ + paid,
                                            ![Splitter] = @ + ubi - DAppShare(ubi)]
        /\ Finalize(m, yesWon) /\ ResolveMarket(m, Resolver, yesWon)
        /\ UNCHANGED <<now, bondAmount, disputeWindow, resolutionRequested>>
    BY DEF AdminResolveDispute
  <1>2. winner \in Users
    BY <1>0, <1>1 DEF Fits
  <1>3. winnerBond \in Nat /\ loserBond \in Nat /\ winnerBond + loserBond = pBond + dBond
    BY <1>0
  <1>4. LiveOf(resolutions[m]) = pBond + dBond
    BY <1>1 DEF LiveOf
  <1> HIDE DEF winner, winnerBond, loserBond, right
  <1>5. paid \in Nat /\ ubi \in Nat /\ paid + ubi = winnerBond + loserBond
    BY <1>3 DEF WinnerShare
  <1> HIDE DEF paid, ubi
  <1>6. DAppShare(ubi) \in Nat /\ DAppShare(ubi) <= ubi
    BY <1>5, ShareBounded
  <1>7. PICK d \in Nat : d = DAppShare(ubi) /\ d <= ubi
    BY <1>6
  <1>8. PICK w \in Users : w = winner
    BY <1>2
  <1>9. goodDollar' = [goodDollar EXCEPT ![Resolver] = @ - paid - ubi + d, ![w] = @ + paid,
                                         ![Splitter] = @ + ubi - d]
    BY <1>1, <1>7, <1>8
  <1>10. /\ goodDollar' \in [Accounts -> Nat] /\ goodDollar'[Factory] = goodDollar[Factory]
         /\ goodDollar'[Resolver] = goodDollar[Resolver] - paid - ubi + d
    BY <1>0, <1>1, <1>5, <1>7, <1>9
  <1>11. goodDollar[Factory] \in Nat /\ goodDollar[Resolver] \in Nat
    BY <1>0
  <1>12. goodDollar'[Factory] >= goodDollar[Factory]
         /\ goodDollar'[Resolver] - goodDollar[Resolver] >= 0 - LiveOf(resolutions[m])
    BY <1>0, <1>3, <1>4, <1>5, <1>7, <1>10, <1>11
  <1>13. resolutions[m].status # "Finalized"
    BY <1>1
  <1> QED BY <1>1, <1>10, <1>12, <1>13, Finalizes

LEMMA EmergencySafe ==
    ASSUME IInv, NEW m \in Markets, NEW yesWon \in BOOLEAN, EmergencyResolve(m, yesWon)
    PROVE  IInv'
  <1> DEFINE pBond == resolutions[m].proposerBond
             dBond == resolutions[m].disputerBond
  <1>0. /\ Fits(resolutions[m]) /\ pBond \in Nat /\ dBond \in Nat
        /\ resolutions[m] \in Resolutions
        /\ goodDollar \in [Accounts -> Nat]
        /\ Factory \in Accounts /\ Resolver \in Accounts /\ Factory # Resolver
    BY ResolverFacts
  <1>1. /\ resolutions[m].status # "Finalized" /\ goodDollar[Resolver] >= pBond + dBond
        /\ goodDollar' = [a \in Accounts |->
                IF a = Resolver THEN goodDollar[a] - pBond - dBond
                ELSE goodDollar[a] + Returned(m, a)]
        /\ Finalize(m, yesWon) /\ ResolveMarket(m, Resolver, yesWon)
        /\ UNCHANGED <<now, bondAmount, disputeWindow, resolutionRequested>>
    BY DEF EmergencyResolve
  <1>2. \A a \in Accounts : Returned(m, a) \in Nat
    BY <1>0 DEF Returned
  <1>3. LiveOf(resolutions[m]) = pBond + dBond
    <2>1. resolutions[m].status \in {"None", "Proposed", "Disputed"}
      BY <1>0, <1>1 DEF Resolutions
    <2> QED BY <1>0, <2>1 DEF LiveOf, Fits
  <1> HIDE DEF pBond, dBond
  <1>4. goodDollar' \in [Accounts -> Nat]
    <2> SUFFICES ASSUME NEW a \in Accounts
                 PROVE  (IF a = Resolver THEN goodDollar[a] - pBond - dBond
                         ELSE goodDollar[a] + Returned(m, a)) \in Nat
      BY <1>1
    <2> QED BY <1>0, <1>1, <1>2
  <1>5. /\ goodDollar'[Factory] = goodDollar[Factory] + Returned(m, Factory)
        /\ goodDollar'[Resolver] = goodDollar[Resolver] - pBond - dBond
    BY <1>0, <1>1
  <1>6. goodDollar[Factory] \in Nat /\ goodDollar[Resolver] \in Nat /\ Returned(m, Factory) \in Nat
    BY <1>0, <1>2
  <1>7. goodDollar'[Factory] >= goodDollar[Factory]
        /\ goodDollar'[Resolver] - goodDollar[Resolver] >= 0 - LiveOf(resolutions[m])
    BY <1>0, <1>3, <1>5, <1>6
  <1> QED BY <1>1, <1>4, <1>7, Finalizes


-----------------------------------------------------------------------------
(* Steps of the token holders. *)

TokenTables == [Markets -> [Sides -> [Users -> Nat]]]
SideSum(t, m, side) == SumFunctionOnSet(t[m][side], Users)
MarketSum(t, m) == SideSum(t, m, "YES") + SideSum(t, m, "NO")

(* One holding of one side of one market changes. *)
HoldingSet(t, m, side, u, n) == [t EXCEPT ![m][side][u] = n]

LEMMA HoldingReplaced ==
    ASSUME NEW t \in TokenTables, NEW m \in Markets, NEW side \in Sides, NEW u \in Users,
           NEW n \in Nat, NEW g, g = HoldingSet(t, m, side, u, n)
    PROVE  /\ g \in TokenTables
           /\ \A k \in Markets \ {m} : g[k] = t[k]
           /\ MarketSum(t, m) \in Nat
           /\ MarketSum(g, m) = MarketSum(t, m) - t[m][side][u] + n
  <1>1. g \in TokenTables /\ \A k \in Markets \ {m} : g[k] = t[k]
    BY DEF TokenTables, HoldingSet
  <1>2. /\ g[m][side] = [t[m][side] EXCEPT ![u] = n]
        /\ \A s \in Sides \ {side} : g[m][s] = t[m][s]
    BY DEF TokenTables, HoldingSet
  <1>3. \A s \in Sides : t[m][s] \in [Users -> Nat]
    BY DEF TokenTables
  <1>4. PICK a \in [Users -> Nat] : a = t[m][side]
    BY <1>3
  <1>5. PICK b \in [Users -> Nat] : b = [a EXCEPT ![u] = n]
    OBVIOUS
  <1>6. b[u] = n /\ \A y \in Users \ {u} : a[y] = b[y]
    BY <1>5
  <1>7. IsFiniteSet(Users)
    BY MarketConstants
  <1>8. /\ SumFunctionOnSet(a, Users) \in Nat
        /\ SumFunctionOnSet(b, Users) = SumFunctionOnSet(a, Users) - a[u] + b[u]
    BY <1>6, <1>7, OneReplaced
  <1>9. /\ SideSum(t, m, side) \in Nat
        /\ SideSum(g, m, side) = SideSum(t, m, side) - t[m][side][u] + n
    BY <1>2, <1>4, <1>5, <1>6, <1>8 DEF SideSum
  <1>10. \A s \in Sides \ {side} : SideSum(g, m, s) = SideSum(t, m, s)
    BY <1>2 DEF SideSum
  <1>11. \A s \in Sides : SideSum(t, m, s) \in Nat
    BY <1>3, <1>7, SumOfNats DEF SideSum
  <1>12. t[m][side][u] \in Nat
    BY <1>3
  <1>13. side = "YES" \/ side = "NO"
    BY DEF Sides
  <1>14. "YES" \in Sides /\ "NO" \in Sides
    BY DEF Sides
  <1>15. MarketSum(t, m) \in Nat
    BY <1>11, <1>14 DEF MarketSum
  <1>16. MarketSum(g, m) = MarketSum(t, m) - t[m][side][u] + n
    <2>1. CASE side = "YES"
      <3>1. SideSum(g, m, "NO") = SideSum(t, m, "NO")
        BY <1>10, <1>14, <2>1
      <3> QED BY <1>9, <1>11, <1>12, <1>14, <2>1, <3>1 DEF MarketSum
    <2>2. CASE side = "NO"
      <3>1. SideSum(g, m, "YES") = SideSum(t, m, "YES")
        BY <1>10, <1>14, <2>2
      <3> QED BY <1>9, <1>11, <1>12, <1>14, <2>2, <3>1 DEF MarketSum
    <2> QED BY <1>13, <2>1, <2>2
  <1> QED BY <1>1, <1>15, <1>16

(* A trade or redemption on one market: while it is unresolved its tokens   *)
(* and its collateral move together, and the factory pays no more than the *)
(* collateral it gives up.                                                 *)
LEMMA TradeSafe ==
    ASSUME IInv, NEW m \in Markets, NEW c \in Nat,
           collateral' = [collateral EXCEPT ![m] = c],
           goodDollar' \in [Accounts -> Nat],
           goodDollar'[Factory] - goodDollar[Factory] >= c - collateral[m],
           goodDollar'[Resolver] >= goodDollar[Resolver],
           issued' \in [Markets -> [Sides -> Nat]],
           tokens' \in TokenTables, \A k \in Markets \ {m} : tokens'[k] = tokens[k],
           status[m] \notin {"ResolvedYES", "ResolvedNO"} =>
               c - collateral[m] = MarketSum(tokens', m) - MarketSum(tokens, m),
           UNCHANGED <<now, status, endTime, resolver, resolverVars>>
    PROVE  IInv'
  <1>0. /\ TypeOK /\ Backed /\ FactorySolvent /\ ResolutionsFit /\ BondsHeld /\ FinalAgrees
        /\ collateral \in [Markets -> Nat] /\ goodDollar \in [Accounts -> Nat]
        /\ tokens \in TokenTables /\ IsFiniteSet(Markets)
        /\ UNCHANGED <<bondAmount, disputeWindow, resolutionRequested, resolutions>>
    BY MarketConstants DEF IInv, TypeOK, MarketTypeOK, resolverVars, TokenTables
  <1>1. collateral' \in [Markets -> Nat]
    BY <1>0
  <1>2. TypeOK'
    BY <1>0, <1>1 DEF TypeOK, MarketTypeOK, TokenTables
  <1>3. Backed'
    <2> SUFFICES ASSUME NEW k \in Markets, status'[k] \notin {"ResolvedYES", "ResolvedNO"}
                 PROVE  collateral'[k] = MarketSum(tokens', k)
      BY DEF Backed, Held, MarketSum, SideSum
    <2>1. collateral[k] = MarketSum(tokens, k)
      BY <1>0 DEF Backed, Held, MarketSum, SideSum
    <2>2. CASE k # m
      <3>1. collateral'[k] = collateral[k] /\ tokens'[k] = tokens[k]
        BY <1>0, <2>2
      <3> QED BY <2>1, <3>1 DEF MarketSum, SideSum
    <2>3. CASE k = m
      <3>1. collateral'[m] = c /\ collateral[m] \in Nat
        BY <1>0
      <3>2. c - collateral[m] = MarketSum(tokens', m) - MarketSum(tokens, m)
        BY <2>3
      <3>3. tokens' \in TokenTables
        OBVIOUS
      <3>4. \A s \in Sides : tokens'[m][s] \in [Users -> Nat]
        BY <3>3 DEF TokenTables
      <3>5. IsFiniteSet(Users) /\ "YES" \in Sides /\ "NO" \in Sides
        BY MarketConstants DEF Sides
      <3>6. MarketSum(tokens', m) \in Nat
        <4>1. SumFunctionOnSet(tokens'[m]["YES"], Users) \in Nat
          BY <3>4, <3>5, SumOfNats
        <4>2. SumFunctionOnSet(tokens'[m]["NO"], Users) \in Nat
          BY <3>4, <3>5, SumOfNats
        <4> QED BY <4>1, <4>2 DEF MarketSum, SideSum
      <3> QED BY <2>1, <2>3, <3>1, <3>2, <3>6
    <2> QED BY <2>2, <2>3
  <1>4. FactorySolvent'
    <2>1. PICK g \in [Markets -> Nat] : g = collateral'
      BY <1>1
    <2>a. PICK f \in [Markets -> Nat] : f = collateral
      BY <1>0
    <2>b. g = [f EXCEPT ![m] = c]
      BY <2>1, <2>a
    <2>2. g[m] = c /\ \A y \in Markets \ {m} : f[y] = g[y]
      BY <2>b
    <2>3. /\ SumFunctionOnSet(f, Markets) \in Nat
          /\ SumFunctionOnSet(g, Markets) = SumFunctionOnSet(f, Markets) - f[m] + g[m]
      <3>1. IsFiniteSet(Markets)
        BY <1>0
      <3>2. \A y \in Markets \ {m} : f[y] = g[y]
        BY <2>2
      <3> QED BY <3>1, <3>2, OneReplaced
    <2>4. goodDollar[Factory] >= SumFunctionOnSet(collateral, Markets)
      BY <1>0 DEF FactorySolvent
    <2>5. goodDollar'[Factory] \in Nat /\ goodDollar[Factory] \in Nat /\ collateral[m] \in Nat
      BY <1>0 DEF Accounts
    <2>6. goodDollar'[Factory] >= SumFunctionOnSet(g, Markets)
      BY <2>2, <2>3, <2>4, <2>5, <2>a
    <2> QED BY <2>1, <2>6 DEF FactorySolvent
  <1>5. ResolutionsFit'
    BY <1>0 DEF ResolutionsFit
  <1>6. goodDollar'[Resolver] \in Int
    BY DEF Accounts
  <1>7. BondsHeld'
    BY <1>0, <1>6, BondsKept
  <1>8. FinalAgrees'
    BY <1>0 DEF FinalAgrees
  <1> QED BY <1>2, <1>3, <1>4, <1>5, <1>7, <1>8 DEF IInv


(* The facts a token holder's step starts from. *)
LEMMA HolderFacts ==
    ASSUME IInv, NEW u \in Users, NEW m \in Markets
    PROVE  /\ goodDollar \in [Accounts -> Nat]
           /\ u \in Accounts /\ u # Factory /\ u # Resolver /\ u # Splitter
           /\ Factory \in Accounts /\ Resolver \in Accounts /\ Splitter \in Accounts
           /\ Factory # Resolver /\ Factory # Splitter /\ Resolver # Splitter
           /\ collateral \in [Markets -> Nat] /\ collateral[m] \in Nat
           /\ issued \in [Markets -> [Sides -> Nat]]
           /\ tokens \in TokenTables
           /\ \A side \in Sides, v \in Users : tokens[m][side][v] \in Nat
           /\ MaxIssued \in Nat
           /\ goodDollar[Factory] \in Nat /\ goodDollar[Resolver] \in Nat
  <1>1. /\ goodDollar \in [Accounts -> Nat] /\ collateral \in [Markets -> Nat]
        /\ issued \in [Markets -> [Sides -> Nat]] /\ tokens \in TokenTables
    BY DEF IInv, TypeOK, MarketTypeOK, TokenTables
  <1>2. \A side \in Sides, v \in Users : tokens[m][side][v] \in Nat
    BY <1>1 DEF TokenTables
  <1> QED BY <1>1, <1>2, MarketConstants DEF Accounts

LEMMA BuySafe ==
    ASSUME IInv, NEW u \in Users, NEW m \in Markets, NEW side \in Sides,
           NEW amount \in 1..MaxIssued, Buy(u, m, side, amount), UNCHANGED resolverVars
    PROVE  IInv'
  <1>0. /\ goodDollar \in [Accounts -> Nat]
        /\ u \in Accounts /\ u # Factory /\ u # Resolver
        /\ Factory \in Accounts /\ Resolver \in Accounts /\ Factory # Resolver
        /\ collateral \in [Markets -> Nat] /\ collateral[m] \in Nat
        /\ issued \in [Markets -> [Sides -> Nat]] /\ tokens \in TokenTables
        /\ tokens[m][side][u] \in Nat /\ MaxIssued \in Nat
        /\ goodDollar[Factory] \in Nat /\ goodDollar[Resolver] \in Nat
    BY HolderFacts
  <1>1. amount \in Nat
    BY <1>0
  <1>2. /\ goodDollar[u] >= amount
        /\ goodDollar' = [goodDollar EXCEPT ![u] = @ - amount, ![Factory] = @ + amount]
    BY DEF Buy
  <1>3. goodDollar' \in [Accounts -> Nat] /\ goodDollar'[Resolver] = goodDollar[Resolver]
        /\ goodDollar'[Factory] = goodDollar[Factory] + amount
    BY <1>0, <1>1, <1>2
  <1>4. PICK c \in Nat : c = collateral[m] + amount
    BY <1>0, <1>1
  <1>5. collateral' = [collateral EXCEPT ![m] = c]
    BY <1>0, <1>4 DEF Buy
  <1>6. issued' \in [Markets -> [Sides -> Nat]]
    BY <1>0, <1>1 DEF Buy
  <1>7. PICK n \in Nat : n = tokens[m][side][u] + amount
    BY <1>0, <1>1
  <1>8. tokens' = HoldingSet(tokens, m, side, u, n)
    BY <1>0, <1>7 DEF Buy, HoldingSet
  <1>9. /\ tokens' \in TokenTables /\ \A k \in Markets \ {m} : tokens'[k] = tokens[k]
        /\ MarketSum(tokens, m) \in Nat
        /\ MarketSum(tokens', m) = MarketSum(tokens, m) - tokens[m][side][u] + n
    BY <1>0, <1>8, HoldingReplaced
  <1>10. c - collateral[m] = MarketSum(tokens', m) - MarketSum(tokens, m)
    BY <1>0, <1>1, <1>4, <1>7, <1>9
  <1>11. goodDollar'[Factory] - goodDollar[Factory] >= c - collateral[m]
    BY <1>0, <1>1, <1>3, <1>4
  <1>12. goodDollar'[Resolver] >= goodDollar[Resolver]
    BY <1>0, <1>3
  <1>13. UNCHANGED <<now, status, endTime, resolver, resolverVars>>
    BY DEF Buy
  <1> QED BY <1>3, <1>5, <1>6, <1>9, <1>10, <1>11, <1>12, <1>13, TradeSafe

LEMMA TransferSafe ==
    ASSUME IInv, NEW u \in Users, NEW v \in Users, NEW m \in Markets, NEW side \in Sides,
           NEW amount \in 1..MaxIssued, TransferToken(u, v, m, side, amount), UNCHANGED resolverVars
    PROVE  IInv'
  <1>0. /\ goodDollar \in [Accounts -> Nat]
        /\ collateral \in [Markets -> Nat] /\ collateral[m] \in Nat
        /\ issued \in [Markets -> [Sides -> Nat]] /\ tokens \in TokenTables
        /\ \A w \in Users : tokens[m][side][w] \in Nat
        /\ MaxIssued \in Nat
        /\ goodDollar[Factory] \in Nat /\ goodDollar[Resolver] \in Nat
    BY HolderFacts
  <1>1. amount \in Nat /\ u # v /\ amount <= tokens[m][side][u]
    BY <1>0 DEF TransferToken
  <1>2. PICK n \in Nat : n = tokens[m][side][u] - amount
    BY <1>0, <1>1
  <1>3. PICK l \in Nat : l = tokens[m][side][v] + amount
    BY <1>0, <1>1
  <1>4. PICK t : t = HoldingSet(tokens, m, side, u, n)
    OBVIOUS
  <1>5. /\ t \in TokenTables /\ \A k \in Markets \ {m} : t[k] = tokens[k]
        /\ MarketSum(tokens, m) \in Nat
        /\ MarketSum(t, m) = MarketSum(tokens, m) - tokens[m][side][u] + n
    BY <1>0, <1>4, HoldingReplaced
  <1>6. t[m][side][v] = tokens[m][side][v]
    BY <1>0, <1>1, <1>4 DEF TokenTables, HoldingSet
  <1>7. tokens' = HoldingSet(t, m, side, v, l)
    <2>1. tokens' = [tokens EXCEPT ![m][side][u] = @ - amount, ![m][side][v] = @ + amount]
      BY DEF TransferToken
    <2>2. tokens' = [tokens EXCEPT ![m][side][u] = n, ![m][side][v] = l]
      BY <1>0, <1>1, <1>2, <1>3, <2>1 DEF TokenTables
    <2> QED BY <1>4, <2>2 DEF HoldingSet
  <1>8. /\ tokens' \in TokenTables /\ \A k \in Markets \ {m} : tokens'[k] = t[k]
        /\ MarketSum(tokens', m) = MarketSum(t, m) - t[m][side][v] + l
    BY <1>5, <1>7, HoldingReplaced
  <1>9. \A k \in Markets \ {m} : tokens'[k] = tokens[k]
    BY <1>5, <1>8
  <1>10. MarketSum(tokens', m) = MarketSum(tokens, m)
    BY <1>0, <1>1, <1>2, <1>3, <1>5, <1>6, <1>8
  <1>11. PICK c \in Nat : c = collateral[m]
    BY <1>0
  <1>12. c - collateral[m] = MarketSum(tokens', m) - MarketSum(tokens, m) /\ c - collateral[m] = 0
    BY <1>0, <1>5, <1>10, <1>11
  <1>13. /\ UNCHANGED <<now, status, endTime, resolver, resolverVars>>
         /\ UNCHANGED <<goodDollar, issued, collateral>>
    BY DEF TransferToken
  <1>14. collateral' = [collateral EXCEPT ![m] = c]
    BY <1>0, <1>11, <1>13
  <1>15. /\ goodDollar'[Factory] - goodDollar[Factory] >= c - collateral[m]
         /\ goodDollar'[Resolver] >= goodDollar[Resolver]
    BY <1>0, <1>12, <1>13
  <1>16. goodDollar' \in [Accounts -> Nat] /\ issued' \in [Markets -> [Sides -> Nat]]
    BY <1>0, <1>13
  <1> QED BY <1>8, <1>9, <1>12, <1>13, <1>14, <1>15, <1>16, TradeSafe

LEMMA RedeemVoidedSafe ==
    ASSUME IInv, NEW u \in Users, NEW m \in Markets, NEW amount \in 1..MaxIssued,
           RedeemVoided(u, m, amount), UNCHANGED resolverVars
    PROVE  IInv'
  <1>0. /\ goodDollar \in [Accounts -> Nat]
        /\ u \in Accounts /\ u # Factory /\ u # Resolver
        /\ Factory \in Accounts /\ Resolver \in Accounts /\ Factory # Resolver
        /\ collateral \in [Markets -> Nat] /\ collateral[m] \in Nat
        /\ issued \in [Markets -> [Sides -> Nat]] /\ tokens \in TokenTables
        /\ \A s \in Sides : tokens[m][s][u] \in Nat
        /\ MaxIssued \in Nat
        /\ goodDollar[Factory] \in Nat /\ goodDollar[Resolver] \in Nat
    BY HolderFacts
  <1>1. PICK side \in Sides : side = VoidedSide(u, m, amount)
    BY DEF VoidedSide, Sides
  <1>2. /\ tokens[m][side][u] >= amount /\ collateral[m] >= amount /\ goodDollar[Factory] >= amount
        /\ goodDollar' = [goodDollar EXCEPT ![Factory] = @ - amount, ![u] = @ + amount]
    BY <1>1 DEF RedeemVoided, Burnable
  <1>3. amount \in Nat
    BY <1>0
  <1>4. goodDollar' \in [Accounts -> Nat] /\ goodDollar'[Resolver] = goodDollar[Resolver]
        /\ goodDollar'[Factory] = goodDollar[Factory] - amount
    BY <1>0, <1>2, <1>3
  <1>5. PICK c \in Nat : c = collateral[m] - amount
    BY <1>0, <1>2, <1>3
  <1>6. collateral' = [collateral EXCEPT ![m] = c]
    BY <1>0, <1>5 DEF RedeemVoided
  <1>7. PICK n \in Nat : n = tokens[m][side][u] - amount
    BY <1>0, <1>2, <1>3
  <1>8. tokens' = HoldingSet(tokens, m, side, u, n)
    <2>1. tokens' = [tokens EXCEPT ![m][side][u] = @ - amount]
      BY <1>1 DEF RedeemVoided
    <2> QED BY <1>0, <1>7, <2>1 DEF HoldingSet
  <1>9. /\ tokens' \in TokenTables /\ \A k \in Markets \ {m} : tokens'[k] = tokens[k]
        /\ MarketSum(tokens, m) \in Nat
        /\ MarketSum(tokens', m) = MarketSum(tokens, m) - tokens[m][side][u] + n
    BY <1>0, <1>8, HoldingReplaced
  <1>10. tokens[m][side][u] \in Nat
    BY <1>0
  <1>11. c - collateral[m] = MarketSum(tokens', m) - MarketSum(tokens, m)
    BY <1>0, <1>3, <1>5, <1>7, <1>9, <1>10
  <1>12. goodDollar'[Factory] - goodDollar[Factory] >= c - collateral[m]
         /\ goodDollar'[Resolver] >= goodDollar[Resolver]
    BY <1>0, <1>3, <1>4, <1>5
  <1>13. UNCHANGED <<now, status, endTime, resolver, issued, resolverVars>>
    BY DEF RedeemVoided
  <1>14. issued' \in [Markets -> [Sides -> Nat]]
    BY <1>0, <1>13
  <1> QED BY <1>4, <1>6, <1>9, <1>11, <1>12, <1>13, <1>14, TradeSafe

(* A payment of gross out of the factory, fee of it to the splitter, which  *)
(* returns share of the fee. *)
LEMMA RedeemWonSafe ==
    ASSUME IInv, NEW u \in Users, NEW m \in Markets, NEW amount \in 1..MaxIssued,
           RedeemWon(u, m, amount), UNCHANGED resolverVars
    PROVE  IInv'
  <1> DEFINE gross(s) == Gross(m, s, amount)
             feeOf(g) == (g * REDEEM_FEE_BPS) \div BPS
  <1>0. /\ goodDollar \in [Accounts -> Nat]
        /\ u \in Accounts /\ u # Factory /\ u # Resolver /\ u # Splitter
        /\ Factory \in Accounts /\ Resolver \in Accounts /\ Splitter \in Accounts
        /\ Factory # Resolver /\ Factory # Splitter /\ Resolver # Splitter
        /\ collateral \in [Markets -> Nat] /\ collateral[m] \in Nat
        /\ issued \in [Markets -> [Sides -> Nat]] /\ tokens \in TokenTables
        /\ \A s \in Sides : tokens[m][s][u] \in Nat
        /\ MaxIssued \in Nat
        /\ goodDollar[Factory] \in Nat /\ goodDollar[Resolver] \in Nat
    BY HolderFacts
  <1>1. PICK side \in Sides : side = IF status[m] = "ResolvedYES" THEN "YES" ELSE "NO"
    BY DEF Sides
  <1>2. amount \in Nat /\ issued[m][side] \in Nat /\ issued[m][side] > 0
    BY <1>0, <1>1 DEF RedeemWon
  <1>3. gross(side) \in Nat
    BY <1>0, <1>2, QuotientNat DEF Gross
  <1>4. PICK g \in Nat : g = gross(side)
    BY <1>3
  <1>5. feeOf(g) \in Nat /\ feeOf(g) <= g
    BY FeeBounded
  <1>6. PICK fee \in Nat : fee = feeOf(g) /\ fee <= g
    BY <1>5
  <1>7. DAppShare(fee) \in Nat /\ DAppShare(fee) <= fee
    BY ShareBounded
  <1>8. PICK d \in Nat : d = DAppShare(fee) /\ d <= fee
    BY <1>7
  <1>9. /\ status[m] \in {"ResolvedYES", "ResolvedNO"}
        /\ tokens[m][side][u] >= amount
        /\ collateral[m] >= gross(side) /\ goodDollar[Factory] >= gross(side)
        /\ collateral' = [collateral EXCEPT ![m] = @ - Decrement(gross(side))]
        /\ tokens' = [tokens EXCEPT ![m][side][u] = @ - amount]
        /\ goodDollar' = [goodDollar EXCEPT ![Factory] = @ - gross(side) + DAppShare(feeOf(gross(side))),
                                            ![Splitter] = @ + feeOf(gross(side)) - DAppShare(feeOf(gross(side))),
                                            ![u] = @ + gross(side) - feeOf(gross(side))]
        /\ UNCHANGED <<now, status, endTime, resolver, issued>>
    BY <1>1 DEF RedeemWon, Burnable
  <1> HIDE DEF gross, feeOf
  <1>10. /\ collateral[m] >= g /\ goodDollar[Factory] >= g
         /\ goodDollar' = [goodDollar EXCEPT ![Factory] = @ - g + d, ![Splitter] = @ + fee - d,
                                             ![u] = @ + g - fee]
    BY <1>4, <1>6, <1>8, <1>9
  <1>11. goodDollar' \in [Accounts -> Nat] /\ goodDollar'[Resolver] = goodDollar[Resolver]
         /\ goodDollar'[Factory] = goodDollar[Factory] - g + d
    BY <1>0, <1>6, <1>8, <1>10
  <1>12. PICK c \in Nat : c = collateral[m] - g
    BY <1>0, <1>10
  <1>13. collateral' = [collateral EXCEPT ![m] = c]
    BY <1>0, <1>4, <1>9, <1>12 DEF Decrement
  <1>14. PICK n \in Nat : n = tokens[m][side][u] - amount
    BY <1>0, <1>2, <1>9
  <1>15. tokens' = HoldingSet(tokens, m, side, u, n)
    BY <1>0, <1>9, <1>14 DEF HoldingSet
  <1>16. tokens' \in TokenTables /\ \A k \in Markets \ {m} : tokens'[k] = tokens[k]
    BY <1>0, <1>15, HoldingReplaced
  <1>17. goodDollar'[Factory] - goodDollar[Factory] >= c - collateral[m]
         /\ goodDollar'[Resolver] >= goodDollar[Resolver]
    BY <1>0, <1>11, <1>12
  <1>18. UNCHANGED <<now, status, endTime, resolver, issued, resolverVars>>
         /\ status[m] \in {"ResolvedYES", "ResolvedNO"}
    BY <1>9
  <1>19. issued' \in [Markets -> [Sides -> Nat]]
    BY <1>0, <1>18
  <1> QED BY <1>11, <1>13, <1>16, <1>17, <1>18, <1>19, TradeSafe


-----------------------------------------------------------------------------
(* Steps that move nothing the invariant speaks of. *)
LEMMA NothingMoves ==
    ASSUME IInv, now' \in 0..MaxTime, bondAmount' \in Bonds, disputeWindow' \in Windows,
           resolutionRequested' \in [Markets -> BOOLEAN],
           UNCHANGED <<goodDollar, marketVars, resolutions>>
    PROVE  IInv'
  <1>0. /\ TypeOK /\ Backed /\ FactorySolvent /\ ResolutionsFit /\ BondsHeld /\ FinalAgrees
        /\ UNCHANGED <<goodDollar, status, endTime, resolver, issued, collateral, tokens, resolutions>>
    BY DEF IInv, marketVars
  <1>1. TypeOK'
    BY <1>0 DEF TypeOK, MarketTypeOK
  <1>2. Backed'
    BY <1>0, BackedKept
  <1>3. goodDollar[Factory] \in Nat /\ goodDollar[Resolver] \in Nat
    BY <1>0 DEF TypeOK, MarketTypeOK, Accounts
  <1>4. FactorySolvent'
    BY <1>0, <1>3, SolventKept
  <1>5. ResolutionsFit'
    BY <1>0 DEF ResolutionsFit
  <1>6. BondsHeld'
    BY <1>0, <1>3, BondsKept
  <1>7. FinalAgrees'
    BY <1>0 DEF FinalAgrees
  <1> QED BY <1>1, <1>2, <1>4, <1>5, <1>6, <1>7 DEF IInv

LEMMA ResolverStepSafe ==
    ASSUME IInv, NEW m \in Markets, ResolverStep(m)
    PROVE  IInv'
  <1>1. ASSUME RequestResolution(m) PROVE IInv'
    <2>1. now \in 0..MaxTime /\ bondAmount \in Bonds /\ disputeWindow \in Windows
          /\ resolutionRequested \in [Markets -> BOOLEAN]
      BY ResolverFacts
    <2>2. /\ resolutionRequested' \in [Markets -> BOOLEAN]
          /\ now' \in 0..MaxTime /\ bondAmount' \in Bonds /\ disputeWindow' \in Windows
          /\ UNCHANGED <<goodDollar, marketVars, resolutions>>
      BY <1>1, <2>1 DEF RequestResolution
    <2> QED BY <2>2, NothingMoves
  <1>2. ASSUME NEW u \in Users, NEW yesWon \in BOOLEAN, ProposeResolution(u, m, yesWon)
        PROVE  IInv'
    BY <1>2, ProposeSafe
  <1>3. ASSUME NEW u \in Users, DisputeResolution(u, m) PROVE IInv'
    BY <1>3, DisputeSafe
  <1>4. ASSUME FinalizeResolution(m) PROVE IInv'
    BY <1>4, FinalizeSafe
  <1>5. ASSUME NEW yesWon \in BOOLEAN, AdminResolveDispute(m, yesWon) PROVE IInv'
    BY <1>5, AdminResolveSafe
  <1>6. ASSUME NEW yesWon \in BOOLEAN, EmergencyResolve(m, yesWon) PROVE IInv'
    BY <1>6, EmergencySafe
  <1> QED BY <1>1, <1>2, <1>3, <1>4, <1>5, <1>6 DEF ResolverStep

LEMMA MarketStepSafe ==
    ASSUME IInv, NEW u \in Users, NEW m \in Markets, MarketStep(u, m), UNCHANGED resolverVars
    PROVE  IInv'
  <1>1. ASSUME NEW side \in Sides, NEW amount \in 1..MaxIssued, Buy(u, m, side, amount)
        PROVE  IInv'
    BY <1>1, BuySafe
  <1>2. ASSUME NEW v \in Users, NEW side \in Sides, NEW amount \in 1..MaxIssued,
               TransferToken(u, v, m, side, amount)
        PROVE  IInv'
    BY <1>2, TransferSafe
  <1>3. ASSUME NEW amount \in 1..MaxIssued, RedeemVoided(u, m, amount) PROVE IInv'
    BY <1>3, RedeemVoidedSafe
  <1>4. ASSUME NEW amount \in 1..MaxIssued, RedeemWon(u, m, amount) PROVE IInv'
    BY <1>4, RedeemWonSafe
  <1> QED BY <1>1, <1>2, <1>3, <1>4 DEF MarketStep

LEMMA NextSafe ==
    ASSUME IInv, [Next]_vars
    PROVE  IInv'
  <1>0. /\ now \in 0..MaxTime /\ bondAmount \in Bonds /\ disputeWindow \in Windows
        /\ resolutionRequested \in [Markets -> BOOLEAN]
    BY DEF IInv, TypeOK, MarketTypeOK
  <1>1. ASSUME NEW m \in Markets, ResolverStep(m) PROVE IInv'
    BY <1>1, ResolverStepSafe
  <1>2. ASSUME NEW m \in Markets, AdminStep(m), UNCHANGED resolverVars PROVE IInv'
    BY <1>2, AdminStepSafe
  <1>3. ASSUME NEW u \in Users, NEW m \in Markets, MarketStep(u, m), UNCHANGED resolverVars
        PROVE  IInv'
    BY <1>3, MarketStepSafe
  <1>4. ASSUME NEW bond \in Bonds, NEW window \in Windows, SetParameters(bond, window)
        PROVE  IInv'
    <2>1. /\ now' \in 0..MaxTime /\ bondAmount' \in Bonds /\ disputeWindow' \in Windows
          /\ resolutionRequested' \in [Markets -> BOOLEAN]
          /\ UNCHANGED <<goodDollar, marketVars, resolutions>>
      BY <1>0, <1>4 DEF SetParameters
    <2> QED BY <2>1, NothingMoves
  <1>5. ASSUME Tick PROVE IInv'
    <2>1. now' \in 0..MaxTime
      BY <1>0, <1>5, MarketConstants DEF Tick
    <2>2. /\ bondAmount' \in Bonds /\ disputeWindow' \in Windows
          /\ resolutionRequested' \in [Markets -> BOOLEAN]
          /\ UNCHANGED <<goodDollar, marketVars, resolutions>>
      BY <1>0, <1>5 DEF Tick, resolverVars
    <2> QED BY <2>1, <2>2, NothingMoves
  <1>6. ASSUME UNCHANGED vars PROVE IInv'
    <2>1. /\ now' \in 0..MaxTime /\ bondAmount' \in Bonds /\ disputeWindow' \in Windows
          /\ resolutionRequested' \in [Markets -> BOOLEAN]
          /\ UNCHANGED <<goodDollar, marketVars, resolutions>>
      BY <1>0, <1>6 DEF vars, resolverVars
    <2> QED BY <2>1, NothingMoves
  <1> QED BY <1>1, <1>2, <1>3, <1>4, <1>5, <1>6 DEF Next

LEMMA InitSafe ==
    ASSUME Init
    PROVE  IInv
  <1>0. /\ Endowment \in Nat /\ MaxTime \in Nat /\ 0 \in 0..MaxTime
        /\ IsFiniteSet(Users) /\ IsFiniteSet(Markets)
    BY MarketConstants
  <1>1. NoResolution \in Resolutions /\ NoResolution.status = "None"
        /\ NoResolution.proposerBond = 0 /\ NoResolution.disputerBond = 0
    BY <1>0 DEF NoResolution, Resolutions
  <1>2. resolutions = [m \in Markets |-> NoResolution]
    BY DEF Init
  <1>3. TypeOK
    <2>1. MarketTypeOK
      BY <1>0 DEF Init, MarketInit, MarketTypeOK, Statuses, Accounts
    <2> QED BY <1>1, <2>1 DEF Init, TypeOK
  <1>4. \A m \in Markets, s \in Sides : tokens[m][s] = [u \in Users |-> 0]
    BY DEF Init, MarketInit
  <1>5. SumFunctionOnSet([u \in Users |-> 0], Users) = 0
    <2>1. [u \in Users |-> 0] \in [Users -> Int] /\ \A u \in Users : [v \in Users |-> 0][u] = 0
      OBVIOUS
    <2> QED BY <1>0, <2>1, SumOfZeros
  <1>6. Backed
    <2>1. "YES" \in Sides /\ "NO" \in Sides
      BY DEF Sides
    <2>2. \A m \in Markets : collateral[m] = 0
      BY DEF Init, MarketInit
    <2> QED BY <1>4, <1>5, <2>1, <2>2 DEF Backed, Held
  <1>7. FactorySolvent
    <2>1. SumFunctionOnSet(collateral, Markets) = 0
      <3>1. collateral \in [Markets -> Int] /\ \A m \in Markets : collateral[m] = 0
        BY DEF Init, MarketInit
      <3> QED BY <1>0, <3>1, SumOfZeros
    <2>2. goodDollar[Factory] \in Nat
      BY <1>3 DEF TypeOK, MarketTypeOK, Accounts
    <2> QED BY <2>1, <2>2 DEF FactorySolvent
  <1>8. ResolutionsFit
    BY <1>1, <1>2 DEF ResolutionsFit
  <1>9. BondsHeld
    <2>1. LiveTable(resolutions) \in [Markets -> Int]
          /\ \A m \in Markets : LiveTable(resolutions)[m] = 0
      BY <1>1, <1>2 DEF LiveTable, LiveOf
    <2>2. SumFunctionOnSet(LiveTable(resolutions), Markets) = 0
      BY <1>0, <2>1, SumOfZeros
    <2>3. goodDollar[Resolver] \in Nat
      BY <1>3 DEF TypeOK, MarketTypeOK, Accounts
    <2> QED BY <2>2, <2>3, BondsAreTable
  <1>10. FinalAgrees
    BY <1>1, <1>2 DEF FinalAgrees
  <1> QED BY <1>3, <1>6, <1>7, <1>8, <1>9, <1>10 DEF IInv

-----------------------------------------------------------------------------
(* The invariant holds in every state, for any users, markets, fee, bonds   *)
(* and windows (MarketFactory and OptimisticResolver).                     *)
THEOREM PredictInvariant == Spec => []IInv
  <1>1. Init => IInv
    BY InitSafe
  <1>2. IInv /\ [Next]_vars => IInv'
    BY NextSafe
  <1> QED BY <1>1, <1>2, PTL DEF Spec

(* Every variable keeps its type: no balance, holding or collateral goes    *)
(* below zero, so the subtractions of buy, redeem and the resolver's       *)
(* payouts never underflow.                                                *)
THEOREM PredictIsTyped == Spec => []TypeOK
  BY PredictInvariant, PTL DEF IInv

(* A market that can still be voided, or was, can pay back every token it   *)
(* sold (buy, redeem, voidMarket).                                         *)
THEOREM TokensStayBacked == Spec => []VoidRefundable
  <1>1. IInv => VoidRefundable
    BY DEF IInv, Backed, VoidRefundable
  <1> QED BY <1>1, PredictInvariant, PTL

(* The factory's G$ covers the collateral of all its markets together.      *)
THEOREM FactoryStaysSolvent == Spec => []FactorySolvent
  BY PredictInvariant, PTL DEF IInv

(* The resolver's G$ covers the bonds of every open resolution.             *)
THEOREM BondsAreHeld == Spec => []BondsHeld
  BY PredictInvariant, PTL DEF IInv

(* A final resolution agrees with its market in every state, whatever the   *)
(* admin does behind the resolver's back.                                  *)
THEOREM FinalNeverContradicted == Spec => []FinalAgrees
  BY PredictInvariant, PTL DEF IInv

=============================================================================
