-------------------------------- MODULE GoodDAO --------------------------------
(***************************************************************************)
(* GoodDAO.sol: proposals, ballots with the votes an account had when the   *)
(* voting started, the verdict, the queue and the execution.  What is read  *)
(* of VoteEscrowedGD is read when it is needed: quorum and threshold are    *)
(* shares of the total of that moment.                                     *)
(***************************************************************************)
EXTENDS VoteEscrowedGD

CONSTANTS
    MaxProposals,         \* bound on the proposals made
    VOTING_DELAY, VOTING_PERIOD, TIMELOCK_DELAY, EXECUTION_WINDOW,
    PROPOSAL_THRESHOLD_BPS, QUORUM_BPS,
    MaxCalls              \* bound on the calls that change something

ASSUME DAOConstants ==
    /\ MaxProposals \in Nat /\ MaxCalls \in Nat
    /\ VOTING_DELAY \in Nat /\ VOTING_PERIOD \in Nat
    /\ TIMELOCK_DELAY \in Nat \ {0} /\ EXECUTION_WINDOW \in Nat
    /\ PROPOSAL_THRESHOLD_BPS \in 0..10000 /\ QUORUM_BPS \in 0..10000

ProposalIds == 1..MaxProposals

VARIABLES
    proposalCount,
    proposals,     \* id -> Proposal, blank until proposed
    receipts,      \* id -> user -> Receipt
    guardian,
    calls          \* calls so far that changed something

daoVars == <<proposalCount, proposals, receipts, guardian>>
contractVars == <<escrowVars, daoVars>>
vars == <<now, contractVars, calls>>

VoteType == {"Against", "For", "Abstain"}

Blank == [proposer |-> Nobody, startTime |-> 0, endTime |-> 0, executionTime |-> 0,
          tally |-> [s \in VoteType |-> 0], canceled |-> FALSE, executed |-> FALSE]

NotVoted == [hasVoted |-> FALSE, support |-> "Against", votes |-> 0]

TypeOK ==
    /\ EscrowTypeOK
    /\ calls \in 0..MaxCalls
    /\ proposalCount \in 0..MaxProposals
    /\ proposals \in [ProposalIds ->
          [proposer : Delegatees, startTime : Nat, endTime : Nat,
           executionTime : Nat, tally : [VoteType -> Nat], canceled : BOOLEAN, executed : BOOLEAN]]
    /\ receipts \in [ProposalIds -> [Users -> [hasVoted : BOOLEAN, support : VoteType, votes : Nat]]]
    /\ guardian \in Delegatees

Init ==
    /\ EscrowInit
    /\ calls = 0
    /\ proposalCount = 0
    /\ proposals = [id \in ProposalIds |-> Blank]
    /\ receipts = [id \in ProposalIds |-> [u \in Users |-> NotVoted]]
    /\ guardian \in Users

-----------------------------------------------------------------------------
TotalPower == Latest(totalSupplyCheckpoints)

Quorum == (TotalPower * QUORUM_BPS) \div 10000

(* Mutant: ballots are taken after the end of the voting period. *)
Started(p) == now >= p.startTime /\ p.startTime > 0

Voting(p) == p.startTime <= now /\ now <= p.endTime

Passed(p) ==
    /\ p.tally["For"] + p.tally["Abstain"] >= Quorum
    /\ p.tally["For"] > p.tally["Against"]

(* state(), which judges the tally by the quorum of today. *)
StateOf(p) ==
    CASE p.canceled -> "Canceled"
      [] ~p.canceled /\ p.executed -> "Executed"
      [] ~p.canceled /\ ~p.executed /\ now < p.startTime -> "Pending"
      [] ~p.canceled /\ ~p.executed /\ Voting(p) -> "Active"
      [] OTHER -> IF ~Passed(p) THEN "Defeated"
                  ELSE IF p.executionTime = 0 THEN "Succeeded"
                  ELSE IF now > p.executionTime + EXECUTION_WINDOW THEN "Expired"
                  ELSE "Queued"

Propose(u) ==
    /\ \/ TotalPower = 0
       \/ Latest(checkpoints[u]) >= (TotalPower * PROPOSAL_THRESHOLD_BPS) \div 10000
    /\ proposalCount < MaxProposals
    /\ proposalCount' = proposalCount + 1
    /\ proposals' = [proposals EXCEPT ![proposalCount'] =
          [@ EXCEPT !.proposer = u, !.startTime = now + VOTING_DELAY,
                    !.endTime = now + VOTING_DELAY + VOTING_PERIOD]]
    /\ UNCHANGED <<receipts, guardian>>

CastVote(u, id, support) ==
    LET votes == PastVotes(checkpoints[u], proposals[id].startTime) IN
    /\ Voting(proposals[id])
    /\ ~receipts[id][u].hasVoted
    /\ receipts' = [receipts EXCEPT ![id][u] = [hasVoted |-> TRUE, support |-> support, votes |-> votes]]
    /\ proposals' = [proposals EXCEPT ![id].tally[support] = @ + votes]
    /\ UNCHANGED <<proposalCount, guardian>>

Queue(id) ==
    /\ StateOf(proposals[id]) = "Succeeded"
    /\ proposals' = [proposals EXCEPT ![id].executionTime = now + TIMELOCK_DELAY]
    /\ UNCHANGED <<proposalCount, receipts, guardian>>

(* execute: a call that fails reverts all of it.                           *)
Execute(id) ==
    /\ StateOf(proposals[id]) = "Queued"
    /\ now >= proposals[id].executionTime
    /\ proposals' = [proposals EXCEPT ![id].executed = TRUE]
    /\ UNCHANGED <<proposalCount, receipts, guardian>>

(* cancel, which the guardian may also call for an id not yet handed out.  *)
CancelProposal(u, id) ==
    /\ ~proposals[id].executed /\ ~proposals[id].canceled
    /\ u \in {proposals[id].proposer, guardian}
    /\ proposals' = [proposals EXCEPT ![id].canceled = TRUE]
    /\ UNCHANGED <<proposalCount, receipts, guardian>>

TransferGuardian(new) ==
    /\ guardian # Nobody
    /\ guardian' = new
    /\ UNCHANGED <<proposalCount, proposals, receipts>>

DAOStep ==
    \/ \E u \in Users : Propose(u)
    \/ \E u \in Users, id \in ProposalIds :
          (\E support \in VoteType : CastVote(u, id, support)) \/ CancelProposal(u, id)
    \/ \E id \in ProposalIds : Queue(id) \/ Execute(id)
    \/ \E new \in Delegatees : TransferGuardian(new)

HasRoom == calls < MaxCalls
Tally == calls' = IF UNCHANGED contractVars THEN calls ELSE calls + 1

Next ==
    \/ HasRoom /\ EscrowStep /\ UNCHANGED <<now, daoVars>> /\ Tally
    \/ HasRoom /\ DAOStep /\ UNCHANGED <<now, escrowVars>> /\ Tally
    \/ Tick /\ UNCHANGED <<contractVars, calls>>

Spec == Init /\ [][Next]_vars

-----------------------------------------------------------------------------
Closed(p) == p.startTime > 0 /\ now > p.endTime

(* Once voting has ended the verdict depends on the ballots no more: it can *)
(* only turn in a step that moves the total voting power, of which the      *)
(* quorum is a share (state() and castVote).                               *)
VerdictTurnsOnlyWithSupply ==
    [][\A id \in ProposalIds :
        LET p == proposals[id] IN
        (Closed(p) /\ (Passed(p) # Passed(p)')) => TotalPower' # TotalPower]_vars
===============================================================================
