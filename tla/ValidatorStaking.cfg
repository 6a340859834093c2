SPECIFICATION StakingSpec
CONSTANTS
    MaxTime = 3
    Stakers = {alice, bob}
    StakerEndowment = 4
    StakeAmounts = {1, 2}
    MIN_STAKE = 2
    UNBONDING_PERIOD = 1
    rewardRateBPS = 5000
    slashBPS = 5000
    YEAR = 1
SYMMETRY Symmetry
INVARIANTS RollIsExact PrincipalHeld
PROPERTIES EarnedOnlyWithTime
CHECK_DEADLOCK FALSE
