-------------------------- MODULE OptimisticResolver --------------------------
(***************************************************************************)
(* Bonded resolution of prediction markets:                                *)
(* src/src/predict/OptimisticResolver.sol, composed with the MarketFactory *)
(* whose markets it resolves.  Anyone proposes an outcome with a bond;     *)
(* within the window anyone else may dispute with a bond of the same size; *)
(* an undisputed proposal is final, a disputed one is the admin's to judge. *)
(***************************************************************************)
EXTENDS MarketFactory

CONSTANTS
    Bonds,       \* bond amounts the admin may set
    Windows,     \* dispute windows the admin may set
    Nobody

ASSUME ResolverConstants == Bonds \subseteq Nat /\ Windows \subseteq Nat /\ Nobody \notin Users

VARIABLES
    bondAmount,
    disputeWindow,
    resolutionRequested,  \* market -> BOOLEAN
    resolutions           \* market -> Resolution

resolverVars == <<bondAmount, disputeWindow, resolutionRequested, resolutions>>
vars == <<now, goodDollar, marketVars, resolverVars>>

Resolutions ==
    [status : {"None", "Proposed", "Disputed", "Finalized"},
     proposedOutcome : BOOLEAN, finalOutcome : BOOLEAN,
     proposer : Users \cup {Nobody}, proposerBond : Bonds \cup {0}, proposalTime : 0..MaxTime,
     disputer : Users \cup {Nobody}, disputerBond : Bonds \cup {0}]

NoResolution ==
    [status |-> "None", proposedOutcome |-> FALSE, finalOutcome |-> FALSE,
     proposer |-> Nobody, proposerBond |-> 0, proposalTime |-> 0,
     disputer |-> Nobody, disputerBond |-> 0]

TypeOK ==
    /\ MarketTypeOK
    /\ bondAmount \in Bonds
    /\ disputeWindow \in Windows
    /\ resolutionRequested \in [Markets -> BOOLEAN]
    /\ resolutions \in [Markets -> Resolutions]

Init ==
    /\ MarketInit
    /\ bondAmount \in Bonds
    /\ disputeWindow \in Windows
    /\ resolutionRequested = [m \in Markets |-> FALSE]
    /\ resolutions = [m \in Markets |-> NoResolution]

-----------------------------------------------------------------------------
(* Only the admin calls it: the factory, although allowed to, does not. *)
RequestResolution(m) ==
    /\ resolutionRequested' = [resolutionRequested EXCEPT ![m] = TRUE]
    /\ UNCHANGED <<now, goodDollar, marketVars, bondAmount, disputeWindow, resolutions>>

ProposeResolution(u, m, yesWon) ==
    /\ resolutionRequested[m]
    /\ resolutions[m].status = "None"
    /\ goodDollar[u] >= bondAmount
    /\ goodDollar' = [goodDollar EXCEPT ![u] = @ - bondAmount, ![Resolver] = @ + bondAmount]
    /\ resolutions' = [resolutions EXCEPT ![m] =
            [NoResolution EXCEPT !.status = "Proposed", !.proposedOutcome = yesWon,
                                 !.proposer = u, !.proposerBond = bondAmount,
                                 !.proposalTime = now]]
    /\ UNCHANGED <<now, marketVars, bondAmount, disputeWindow, resolutionRequested>>

Deadline(m) == resolutions[m].proposalTime + disputeWindow

(* The disputer matches the proposer's bond, whatever the bond is now. *)
RequiredBond(m) == resolutions[m].proposerBond

DisputeResolution(u, m) ==
    /\ resolutions[m].status = "Proposed"
    /\ now <= Deadline(m)
    /\ u # resolutions[m].proposer
    /\ goodDollar[u] >= RequiredBond(m)
    /\ goodDollar' = [goodDollar EXCEPT ![u] = @ - RequiredBond(m),
                                        ![Resolver] = @ + RequiredBond(m)]
    /\ resolutions' = [resolutions EXCEPT ![m].status = "Disputed", ![m].disputer = u,
                                          ![m].disputerBond = RequiredBond(m)]
    /\ UNCHANGED <<now, marketVars, bondAmount, disputeWindow, resolutionRequested>>

(* Mutant: the outcome is recorded, the status stays as it was. *)
RecordOutcome(m, outcome) == resolutions' = [resolutions EXCEPT ![m].finalOutcome = outcome]

Finalize(m, outcome) ==
    resolutions' = [resolutions EXCEPT ![m].status = "Finalized", ![m].finalOutcome = outcome]

FinalizeResolution(m) ==
    LET r == resolutions[m]
    IN  /\ r.status = "Proposed"
        /\ now >= Deadline(m)
        /\ goodDollar[Resolver] >= r.proposerBond
        /\ Finalize(m, r.proposedOutcome)
        /\ goodDollar' = [goodDollar EXCEPT ![Resolver] = @ - r.proposerBond,
                                            ![r.proposer] = @ + r.proposerBond]
        /\ ResolveMarket(m, Resolver, r.proposedOutcome)
        /\ UNCHANGED <<now, bondAmount, disputeWindow, resolutionRequested>>

WinnerShare(bond) == bond \div 2

(* The loser's bond is split between the winner and UBI; splitFee refuses  *)
(* a zero fee and sends the dApp's share of it back to the resolver.       *)
AdminResolveDispute(m, yesWon) ==
    LET r == resolutions[m]
        right == r.proposedOutcome = yesWon
        winner == IF right THEN r.proposer ELSE r.disputer
        winnerBond == IF right THEN r.proposerBond ELSE r.disputerBond
        loserBond == IF right THEN r.disputerBond ELSE r.proposerBond
        paid == winnerBond + WinnerShare(loserBond)
        ubi == loserBond - loserBond \div 2
    IN  /\ r.status = "Disputed"
        /\ ubi > 0
        /\ goodDollar[Resolver] >= paid + ubi
        /\ Finalize(m, yesWon)
        /\ goodDollar' = [goodDollar EXCEPT ![Resolver] = @ - paid - ubi + DAppShare(ubi),
                                            ![winner] = @ + paid,
                                            ![Splitter] = @ + ubi - DAppShare(ubi)]
        /\ ResolveMarket(m, Resolver, yesWon)
        /\ UNCHANGED <<now, bondAmount, disputeWindow, resolutionRequested>>

(* What emergencyResolve gives back to account u. *)
Returned(m, u) ==
    (IF resolutions[m].proposer = u THEN resolutions[m].proposerBond ELSE 0)
        + (IF resolutions[m].disputer = u THEN resolutions[m].disputerBond ELSE 0)

EmergencyResolve(m, yesWon) ==
    LET r == resolutions[m]
    IN  /\ r.status # "Finalized"
        /\ goodDollar[Resolver] >= r.proposerBond + r.disputerBond
        /\ Finalize(m, yesWon)
        /\ goodDollar' = [a \in Accounts |->
                IF a = Resolver THEN goodDollar[a] - r.proposerBond - r.disputerBond
                ELSE goodDollar[a] + Returned(m, a)]
        /\ ResolveMarket(m, Resolver, yesWon)
        /\ UNCHANGED <<now, bondAmount, disputeWindow, resolutionRequested>>

SetParameters(bond, window) ==
    /\ bondAmount' = bond
    /\ disputeWindow' = window
    /\ UNCHANGED <<now, goodDollar, marketVars, resolutionRequested, resolutions>>

-----------------------------------------------------------------------------
ResolverStep(m) ==
    \/ RequestResolution(m)
    \/ \E u \in Users, yesWon \in BOOLEAN : ProposeResolution(u, m, yesWon)
    \/ \E u \in Users : DisputeResolution(u, m)
    \/ FinalizeResolution(m)
    \/ \E yesWon \in BOOLEAN : AdminResolveDispute(m, yesWon)
    \/ \E yesWon \in BOOLEAN : EmergencyResolve(m, yesWon)

AdminStep(m) ==
    \/ \E end \in 1..MaxTime, who \in {Resolver, Admin} : CreateMarket(m, end, who)
    \/ CloseMarket(m)
    \/ VoidMarket(m)
    \/ \E yesWon \in BOOLEAN :
          /\ ResolveMarket(m, Admin, yesWon)
          /\ UNCHANGED <<now, goodDollar>>

Tick ==
    /\ now < MaxTime
    /\ now' = now + 1
    /\ UNCHANGED <<goodDollar, marketVars, resolverVars>>

Next ==
    \/ \E m \in Markets : ResolverStep(m)
    \/ \E m \in Markets : AdminStep(m) /\ UNCHANGED resolverVars
    \/ \E u \in Users, m \in Markets : MarketStep(u, m) /\ UNCHANGED resolverVars
    \/ \E bond \in Bonds, window \in Windows : SetParameters(bond, window)
    \/ Tick

Spec == Init /\ [][Next]_vars

-----------------------------------------------------------------------------
LiveBonds(m) ==
    IF resolutions[m].status \in {"Proposed", "Disputed"}
    THEN resolutions[m].proposerBond + resolutions[m].disputerBond
    ELSE 0

(* The resolver holds the bonds of every open resolution, so that paying   *)
(* one out never touches another's, whatever the admin sets the bond to in *)
(* between (adminResolveDispute, emergencyResolve, finalizeResolution).    *)
BondsHeld ==
    goodDollar[Resolver] >= SumFunctionOnSet([m \in Markets |-> LiveBonds(m)], Markets)

(* A final resolution and the market it resolved never disagree, although  *)
(* the admin can resolve and void markets behind the resolver's back.      *)
FinalAgrees ==
    \A m \in Markets :
        resolutions[m].status = "Finalized" =>
            status[m] = IF resolutions[m].finalOutcome THEN "ResolvedYES" ELSE "ResolvedNO"
===============================================================================
