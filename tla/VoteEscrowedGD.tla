---------------------------- MODULE VoteEscrowedGD ----------------------------
(***************************************************************************)
(* VoteEscrowedGD.sol: G$ locked for voting power that decays linearly to   *)
(* the end of the lock, the delegation of that power, and the checkpoints   *)
(* from which GoodDAO reads votes.  A checkpoint records what was added and *)
(* taken away, not the decay: nothing writes one when time passes.         *)
(***************************************************************************)
EXTENDS ChainClock, Sequences, SequencesExt, FiniteSetsExt

CONSTANTS
    Users,
    Nobody,                \* address(0) as a delegate
    Treasuries,            \* the addresses that can be ubiTreasury
    Endowment,             \* G$ of every user at the start
    Amounts,               \* the amounts users lock
    MIN_LOCK, MAX_LOCK,
    PENALTY_BPS,           \* EARLY_UNLOCK_PENALTY_BPS
    UBI_SHARE_BPS          \* UBI_PENALTY_SHARE_BPS

ASSUME VoteEscrowConstants ==
    /\ IsFiniteSet(Users) /\ Nobody \notin Users
    /\ Treasuries \cap Users = {}
    /\ Endowment \in Nat /\ Amounts \subseteq Nat \ {0}
    /\ MIN_LOCK \in Nat \ {0} /\ MAX_LOCK \in Nat \ {0}
    /\ PENALTY_BPS \in 0..10000 /\ UBI_SHARE_BPS \in 0..10000

VARIABLES
    locks,          \* user -> [amount, end]
    totalLocked,
    delegates,      \* user -> whom the power goes to
    checkpoints,    \* delegate -> sequence of [timestamp, votes]
    totalSupplyCheckpoints,
    ubiTreasury,
    wallet,         \* G$ of the users and of the treasuries
    held            \* G$ of the contract

lockVars == <<locks, totalLocked, wallet, held>>
voteVars == <<delegates, checkpoints, totalSupplyCheckpoints>>
escrowVars == <<lockVars, voteVars, ubiTreasury>>

Delegatees == Users \cup {Nobody}
NoLock == [amount |-> 0, end |-> 0]
Histories == Seq([timestamp : Nat, votes : Nat])

EscrowTypeOK ==
    /\ now \in Nat
    /\ locks \in [Users -> [amount : Nat, end : Nat]]
    /\ totalLocked \in Nat
    /\ delegates \in [Users -> Delegatees]
    /\ checkpoints \in [Delegatees -> Histories]
    /\ totalSupplyCheckpoints \in Histories
    /\ ubiTreasury \in Treasuries
    /\ wallet \in [Users \cup Treasuries -> Nat]
    /\ held \in Nat

EscrowInit ==
    /\ now = 1
    /\ locks = [u \in Users |-> NoLock]
    /\ totalLocked = 0
    /\ delegates = [u \in Users |-> Nobody]
    /\ checkpoints = [d \in Delegatees |-> <<>>]
    /\ totalSupplyCheckpoints = <<>>
    /\ ubiTreasury \in Treasuries
    /\ wallet = [a \in Users \cup Treasuries |-> IF a \in Users THEN Endowment ELSE 0]
    /\ held = 0

-----------------------------------------------------------------------------
(* votingPowerOf, of an account with this lock. *)
PowerOf(l) == IF now >= l.end THEN 0 ELSE (l.amount * (l.end - now)) \div MAX_LOCK

(* getVotes and totalVotingPower: the last checkpoint. *)
Latest(history) == IF history = <<>> THEN 0 ELSE history[Len(history)].votes

(* getPastVotes: the last checkpoint that is not after t. *)
PastVotes(history, t) ==
    LET past == {i \in 1..Len(history) : history[i].timestamp <= t}
    IN  IF past = {} THEN 0 ELSE history[Max(past)].votes

(* Mutant: a second change in the same block overwrites the first one. *)
LoseFirst(history, change) ==
    LET before == PastVotes(history, now - 1)
        entry == [timestamp |-> now, votes |-> IF before + change > 0 THEN before + change ELSE 0]
    IN  IF history # <<>> /\ history[Len(history)].timestamp = now
        THEN [history EXCEPT ![Len(history)] = entry]
        ELSE Append(history, entry)

(* _writeCheckpoint with _add, or with _sub for a change below zero, which  *)
(* stops at zero.  One block has one checkpoint.                           *)
WriteCheckpoint(history, change) ==
    LET votes == Latest(history) + change
        entry == [timestamp |-> now, votes |-> IF votes > 0 THEN votes ELSE 0]
    IN  IF history # <<>> /\ history[Len(history)].timestamp = now
        THEN [history EXCEPT ![Len(history)] = entry]
        ELSE Append(history, entry)

(* The change of a lock's power, for its delegate and in total. *)
Recount(delegatee, change) ==
    /\ checkpoints' = [checkpoints EXCEPT ![delegatee] = WriteCheckpoint(@, change)]
    /\ totalSupplyCheckpoints' = WriteCheckpoint(totalSupplyCheckpoints, change)

Deposit(u, amount) ==
    /\ wallet[u] >= amount
    /\ wallet' = [wallet EXCEPT ![u] = @ - amount]
    /\ held' = held + amount
    /\ totalLocked' = totalLocked + amount

Lock(u, amount, duration) ==
    LET l == [amount |-> amount, end |-> now + duration] IN
    /\ locks[u].amount = 0
    /\ Deposit(u, amount)
    /\ locks' = [locks EXCEPT ![u] = l]
    /\ delegates' = [delegates EXCEPT ![u] = IF @ = Nobody THEN u ELSE @]
    /\ Recount(delegates'[u], PowerOf(l))
    /\ UNCHANGED ubiTreasury

IncreaseLock(u, added) ==
    LET l == [locks[u] EXCEPT !.amount = @ + added] IN
    /\ locks[u].amount > 0
    /\ now < locks[u].end
    /\ Deposit(u, added)
    /\ locks' = [locks EXCEPT ![u] = l]
    /\ Recount(delegates[u], PowerOf(l) - PowerOf(locks[u]))
    /\ UNCHANGED <<delegates, ubiTreasury>>

ExtendLock(u, newEnd) ==
    LET l == [locks[u] EXCEPT !.end = newEnd]
        gain == PowerOf(l) - PowerOf(locks[u])
    IN  /\ locks[u].amount > 0
        /\ newEnd > locks[u].end
        /\ newEnd <= now + MAX_LOCK
        /\ locks' = [locks EXCEPT ![u] = l]
        /\ IF gain > 0 THEN Recount(delegates[u], gain)
                       ELSE UNCHANGED <<checkpoints, totalSupplyCheckpoints>>
        /\ UNCHANGED <<totalLocked, wallet, held, delegates, ubiTreasury>>

(* withdraw: the checkpoint of the delegate is rewritten with what it has. *)
Withdraw(u) ==
    /\ locks[u].amount > 0
    /\ now >= locks[u].end
    /\ checkpoints' = [checkpoints EXCEPT ![delegates[u]] = WriteCheckpoint(@, 0)]
    /\ locks' = [locks EXCEPT ![u] = NoLock]
    /\ totalLocked' = totalLocked - locks[u].amount
    /\ held' = held - locks[u].amount
    /\ wallet' = [wallet EXCEPT ![u] = @ + locks[u].amount]
    /\ UNCHANGED <<delegates, totalSupplyCheckpoints, ubiTreasury>>

Penalty(amount) == (amount * PENALTY_BPS) \div 10000
ToUBI(amount) == (Penalty(amount) * UBI_SHARE_BPS) \div 10000

(* Mutant: the penalty is not taken from what is paid out. *)
PayAll(amount) == amount

Received(amount) == amount - Penalty(amount)

(* earlyUnlock: the rest of the penalty stays in the contract, where        *)
(* nothing counts it any more.                                             *)
EarlyUnlock(u) ==
    LET amount == locks[u].amount
        power == PowerOf(locks[u])
    IN  /\ amount > 0
        /\ now < locks[u].end
        /\ IF power > 0 THEN Recount(delegates[u], -power)
                        ELSE UNCHANGED <<checkpoints, totalSupplyCheckpoints>>
        /\ locks' = [locks EXCEPT ![u] = NoLock]
        /\ totalLocked' = totalLocked - amount
        /\ held' = held - Received(amount) - ToUBI(amount)
        /\ wallet' = [wallet EXCEPT ![u] = @ + Received(amount),
                                    ![ubiTreasury] = @ + ToUBI(amount)]
        /\ UNCHANGED <<delegates, ubiTreasury>>

(* Mutant: the old delegate keeps the votes. *)
AddOnly(old, new, power) ==
    checkpoints' = [checkpoints EXCEPT ![new] = WriteCheckpoint(@, power)]

MoveVotes(old, new, power) ==
    LET taken == IF old = Nobody THEN checkpoints
                 ELSE [checkpoints EXCEPT ![old] = WriteCheckpoint(@, -power)]
    IN  checkpoints' = [taken EXCEPT ![new] = WriteCheckpoint(@, power)]

Delegate(u, delegatee) ==
    LET power == PowerOf(locks[u]) IN
    /\ delegates' = [delegates EXCEPT ![u] = delegatee]
    /\ IF power > 0 THEN MoveVotes(delegates[u], delegatee, power)
                    ELSE UNCHANGED checkpoints
    /\ UNCHANGED <<lockVars, totalSupplyCheckpoints, ubiTreasury>>

SetUbiTreasury(treasury) ==
    /\ ubiTreasury' = treasury
    /\ UNCHANGED <<lockVars, voteVars>>

EscrowStep ==
    \/ \E u \in Users :
        \/ \E amount \in Amounts : \/ \E duration \in MIN_LOCK..MAX_LOCK : Lock(u, amount, duration)
                                   \/ IncreaseLock(u, amount)
        \/ \E newEnd \in 1..now + MAX_LOCK : ExtendLock(u, newEnd)
        \/ Withdraw(u)
        \/ EarlyUnlock(u)
        \/ \E d \in Delegatees : Delegate(u, d)
    \/ \E treasury \in Treasuries : SetUbiTreasury(treasury)

-----------------------------------------------------------------------------
PowerDelegatedTo(d) ==
    SumFunctionOnSet([u \in Users |-> IF delegates[u] = d THEN PowerOf(locks[u]) ELSE 0], Users)

(* What _sub takes away was there: the votes of a delegate never fall below *)
(* the present power of the locks delegated to it, so that early unlocks    *)
(* and re-delegations of locks that have decayed since they were counted    *)
(* never take the votes of others or stop at zero.                         *)
VotesCoverPower ==
    \A d \in Users : Latest(checkpoints[d]) >= PowerDelegatedTo(d)

(* At every time the DAO can look up, the votes of all delegates together   *)
(* are within the total at that time, which quorum and threshold are taken  *)
(* of: whatever is locked, unlocked, delegated away, to nobody and back.   *)
VotesWithinTotal ==
    \A t \in 0..now :
        SumFunctionOnSet([d \in Users |-> PastVotes(checkpoints[d], t)], Users)
            <= PastVotes(totalSupplyCheckpoints, t)

(* Every lock can be paid out in full at its end: the contract holds what   *)
(* is locked, totalLocked counts it, and penalties leave that alone.       *)
LocksHeld ==
    /\ totalLocked = SumFunctionOnSet([u \in Users |-> locks[u].amount], Users)
    /\ held >= totalLocked
===============================================================================
