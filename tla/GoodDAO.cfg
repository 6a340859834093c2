SPECIFICATION Spec
CONSTANTS
    MaxTime = 5
    Users = {alice, bob}
    Nobody = Nobody
    Treasuries = {ubi}
    Endowment = 40
    Amounts = {20}
    MIN_LOCK = 2
    MAX_LOCK = 2
    PENALTY_BPS = 3000
    UBI_SHARE_BPS = 2000
    MaxProposals = 1
    VOTING_DELAY = 1
    VOTING_PERIOD = 1
    TIMELOCK_DELAY = 1
    EXECUTION_WINDOW = 0
    PROPOSAL_THRESHOLD_BPS = 100
    QUORUM_BPS = 5000
    MaxCalls = 5
SYMMETRY Symmetry
INVARIANTS VotesCoverPower VotesWithinTotal LocksHeld
PROPERTIES VerdictTurnsOnlyWithSupply
CHECK_DEADLOCK FALSE
