SPECIFICATION Spec
CONSTANTS
    Users = {alice, bob}
    Markets = {m1, m2}
    Factory = Factory
    Resolver = Resolver
    Splitter = Splitter
    Admin = Admin
    Nobody = Nobody
    REDEEM_FEE_BPS = 1
    BPS = 2
    Endowment = 2
    MaxIssued = 1
    MaxTime = 1
    Bonds = {1}
    Windows = {0}
SYMMETRY Symmetry
INVARIANTS VoidRefundable FactorySolvent BondsHeld FinalAgrees
