--------------------------- MODULE ValidatorStaking ---------------------------
(***************************************************************************)
(* ValidatorStaking.sol: G$ staked by validators, which leaves through an   *)
(* unbonding period, can be slashed for the UBI pool on the way, and earns  *)
(* rewards out of what the contract holds beyond the stakes.                *)
(***************************************************************************)
EXTENDS ChainClock, Sequences, FiniteSets, Functions

CONSTANTS
    Stakers,
    StakerEndowment,     \* G$ of every user at the start
    StakeAmounts,        \* amounts that users name
    MIN_STAKE, UNBONDING_PERIOD,
    rewardRateBPS, slashBPS,
    YEAR                 \* 365 days

ASSUME StakingConstants ==
    /\ IsFiniteSet(Stakers)
    /\ StakerEndowment \in Nat /\ StakeAmounts \subseteq Nat
    /\ MIN_STAKE \in Nat \ {0} /\ UNBONDING_PERIOD \in Nat
    /\ rewardRateBPS \in Nat /\ slashBPS \in 0..10000 /\ YEAR \in Nat \ {0}

VARIABLES
    validators,      \* user -> Validator
    validatorList,
    listIndex,       \* _validatorListIndex, 0 for who is not in the list
    totalStaked,
    activeCount,
    stakerWallet,    \* G$ of the users
    stakesHeld,      \* G$ of the contract
    ubiPool,         \* G$ slashed
    drawn            \* history: rewards paid out of what somebody is unbonding

listVars == <<validatorList, listIndex>>
moneyVars == <<stakerWallet, stakesHeld, ubiPool, drawn>>
stakingVars == <<validators, listVars, totalStaked, activeCount, moneyVars>>

Validator ==
    [staked : Nat, rewardDebt : Nat, lastStakeTime : Nat, isActive : BOOLEAN,
     unbonding : [amount : Nat, unbondAt : Nat]]

NoRequest == [amount |-> 0, unbondAt |-> 0]

StakingTypeOK ==
    /\ now \in Nat
    /\ validators \in [Stakers -> Validator]
    /\ validatorList \in Seq(Stakers)
    /\ listIndex \in [Stakers -> Nat]
    /\ totalStaked \in Nat
    /\ activeCount \in Nat
    /\ stakerWallet \in [Stakers -> Nat]
    /\ stakesHeld \in Nat /\ ubiPool \in Nat /\ drawn \in Nat

StakingInit ==
    /\ now = 1
    /\ validators = [u \in Stakers |-> [staked |-> 0, rewardDebt |-> 0, lastStakeTime |-> 0,
                                        isActive |-> FALSE, unbonding |-> NoRequest]]
    /\ validatorList = <<>>
    /\ listIndex = [u \in Stakers |-> 0]
    /\ totalStaked = 0
    /\ activeCount = 0
    /\ stakerWallet = [u \in Stakers |-> StakerEndowment]
    /\ stakesHeld = 0
    /\ ubiPool = 0
    /\ drawn = 0

-----------------------------------------------------------------------------
Total(field) == SumFunctionOnSet(field, Stakers)
Stakes == [u \in Stakers |-> validators[u].staked]
Unbonding == [u \in Stakers |-> validators[u].unbonding.amount]

PendingRewards(u) ==
    LET v == validators[u] IN
    IF ~v.isActive \/ v.staked = 0 THEN 0
    ELSE v.rewardDebt + (((v.staked * rewardRateBPS) \div 10000) * (now - v.lastStakeTime)) \div YEAR

PayIn(u, amount) ==
    /\ stakerWallet[u] >= amount
    /\ stakerWallet' = [stakerWallet EXCEPT ![u] = @ - amount]
    /\ stakesHeld' = stakesHeld + amount

PayOut(u, amount) ==
    /\ stakesHeld >= amount
    /\ stakerWallet' = [stakerWallet EXCEPT ![u] = @ + amount]
    /\ stakesHeld' = stakesHeld - amount

Enlist(u) ==
    IF listIndex[u] = 0
    THEN /\ validatorList' = Append(validatorList, u)
         /\ listIndex' = [listIndex EXCEPT ![u] = Len(validatorList) + 1]
    ELSE UNCHANGED listVars

(* Mutant: the moved validator keeps its old index. *)
PopOnly(u) ==
    LET idx == listIndex[u]
        last == validatorList[Len(validatorList)]
    IN  IF idx = 0 THEN UNCHANGED listVars
        ELSE /\ validatorList' = SubSeq([validatorList EXCEPT ![idx] = last], 1, Len(validatorList) - 1)
             /\ listIndex' = [listIndex EXCEPT ![u] = 0]

(* _removeFromValidatorList: the last one takes the place that gets free.  *)
Delist(u) ==
    LET idx == listIndex[u]
        last == validatorList[Len(validatorList)]
    IN  IF idx = 0 THEN UNCHANGED listVars
        ELSE /\ validatorList' = SubSeq([validatorList EXCEPT ![idx] = last], 1, Len(validatorList) - 1)
             /\ listIndex' = [listIndex EXCEPT ![last] = idx, ![u] = 0]

(* Mutant: the period that was just booked goes on counting. *)
BookedTwice(v, accrued) == [v EXCEPT !.rewardDebt = @ + accrued]

(* What was earned before a top-up is set aside, and the clock restarts.   *)
SetAside(v, accrued) == [v EXCEPT !.rewardDebt = @ + accrued, !.lastStakeTime = now]

Stake(u, amount) ==
    LET v == validators[u]
        w == IF v.isActive THEN SetAside(v, PendingRewards(u))
                           ELSE [v EXCEPT !.isActive = TRUE, !.lastStakeTime = now]
    IN
    /\ amount >= MIN_STAKE
    /\ PayIn(u, amount)
    /\ validators' = [validators EXCEPT ![u] = [w EXCEPT !.staked = @ + amount]]
    /\ IF v.isActive THEN UNCHANGED <<listVars, activeCount>>
                     ELSE Enlist(u) /\ activeCount' = activeCount + 1
    /\ totalStaked' = totalStaked + amount
    /\ UNCHANGED <<ubiPool, drawn>>

InitiateUnstake(u, amount) ==
    LET v == validators[u] IN
    /\ v.isActive
    /\ v.staked >= amount
    /\ v.unbonding.amount = 0
    /\ validators' = [validators EXCEPT ![u] =
          [v EXCEPT !.staked = @ - amount,
                    !.unbonding = [amount |-> amount, unbondAt |-> now + UNBONDING_PERIOD],
                    !.isActive = v.staked - amount >= MIN_STAKE]]
    /\ totalStaked' = totalStaked - amount
    /\ activeCount' = IF v.staked - amount < MIN_STAKE THEN activeCount - 1 ELSE activeCount
    /\ UNCHANGED <<listVars, moneyVars>>

CompleteUnstake(u) ==
    LET v == validators[u] IN
    /\ v.unbonding.amount > 0
    /\ now >= v.unbonding.unbondAt
    /\ validators' = [validators EXCEPT ![u].unbonding = NoRequest]
    /\ IF v.staked = 0 THEN Delist(u) ELSE UNCHANGED listVars
    /\ PayOut(u, v.unbonding.amount)
    /\ UNCHANGED <<totalStaked, activeCount, ubiPool, drawn>>

(* Mutant: what is unbonding is charged but not taken away. *)
UnbondingKept(v, amount) == [v EXCEPT !.staked = IF amount <= @ THEN @ - amount ELSE 0]

(* The stake is slashed first, then what is unbonding. *)
Slashed(v, amount) ==
    IF amount <= v.staked THEN [v EXCEPT !.staked = @ - amount]
    ELSE [v EXCEPT !.staked = 0,
                   !.unbonding = [v.unbonding EXCEPT !.amount = @ - (amount - v.staked)]]

Slash(u) ==
    LET v == validators[u]
        amount == ((v.staked + v.unbonding.amount) * slashBPS) \div 10000
        w == Slashed(v, amount)
    IN  /\ v.isActive \/ v.unbonding.amount > 0
        /\ validators' = [validators EXCEPT ![u] = [w EXCEPT !.isActive = @ /\ w.staked >= MIN_STAKE]]
        /\ totalStaked' = totalStaked - (v.staked - w.staked)
        /\ activeCount' = IF w.staked < MIN_STAKE /\ v.isActive THEN activeCount - 1 ELSE activeCount
        /\ IF w.staked = 0 /\ w.unbonding.amount = 0 THEN Delist(u) ELSE UNCHANGED listVars
        /\ stakesHeld >= amount
        /\ stakesHeld' = stakesHeld - amount
        /\ ubiPool' = ubiPool + amount
        /\ UNCHANGED <<stakerWallet, drawn>>

(* claimRewards: the reserve is what the contract holds beyond the stakes,  *)
(* and that includes what others are unbonding.                            *)
ClaimRewards(u) ==
    LET rewards == PendingRewards(u)
        free == stakesHeld - Total(Stakes) - Total(Unbonding)
    IN  /\ validators[u].isActive
        /\ rewards > 0
        /\ stakesHeld >= totalStaked + rewards
        /\ validators' = [validators EXCEPT ![u].lastStakeTime = now, ![u].rewardDebt = 0]
        /\ PayOut(u, rewards)
        /\ drawn' = IF rewards <= free THEN drawn
                    ELSE drawn + rewards - (IF free > 0 THEN free ELSE 0)
        /\ UNCHANGED <<listVars, totalStaked, activeCount, ubiPool>>

(* Rewards come from G$ that anybody sends to the contract. *)
Fund(u, amount) ==
    /\ PayIn(u, amount)
    /\ UNCHANGED <<validators, listVars, totalStaked, activeCount, ubiPool, drawn>>

UserStep(u) ==
    \/ \E amount \in StakeAmounts : Stake(u, amount) \/ InitiateUnstake(u, amount) \/ Fund(u, amount)
    \/ InitiateUnstake(u, validators[u].staked)
    \/ CompleteUnstake(u)
    \/ ClaimRewards(u)

StakingNext ==
    \/ \E u \in Stakers : (UserStep(u) \/ Slash(u)) /\ UNCHANGED now
    \/ Tick /\ UNCHANGED stakingVars

StakingSpec == StakingInit /\ [][StakingNext]_<<now, stakingVars>>

-----------------------------------------------------------------------------
ActiveUsers == {u \in Stakers : validators[u].isActive}
Exposed == {u \in Stakers : validators[u].staked + validators[u].unbonding.amount > 0}

(* The roll, kept by hand in four structures: whoever has G$ at stake or    *)
(* unbonding is listed exactly once, at its index, and nobody else is, the  *)
(* count is that of the active validators, and these are exactly the listed *)
(* ones with a minimum stake that have not lost it since they last staked. *)
RollIsExact ==
    /\ activeCount = Cardinality(ActiveUsers)
    /\ \A u \in ActiveUsers : validators[u].staked >= MIN_STAKE
    /\ Len(validatorList) = Cardinality(Exposed)
    /\ \A u \in Exposed : listIndex[u] \in 1..Len(validatorList) /\ validatorList[listIndex[u]] = u

StakedIsSum == totalStaked = Total(Stakes)

(* The contract holds every stake and everything that is unbonding, through *)
(* slashing in any order with the unbonding, up to what rewards have taken  *)
(* out of the unbonding part, which the check of claimRewards leaves out.  *)
PrincipalHeld ==
    /\ StakedIsSum
    /\ stakesHeld + drawn >= Total(Stakes) + Total(Unbonding)

(* What an active validator has earned grows with time only: staking more   *)
(* counts from then on (test_additionalStake_doesNotInflateRewards), unless *)
(* an earlier top-up has left a rewardDebt, which stake counts twice.      *)
EarnedOnlyWithTime ==
    [][\A u \in Stakers :
        (now' = now /\ validators[u].isActive /\ validators[u].rewardDebt = 0) =>
            PendingRewards(u)' <= PendingRewards(u)]_<<now, stakingVars>>
===============================================================================
