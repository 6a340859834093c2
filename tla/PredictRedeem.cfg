SPECIFICATION Spec
CONSTANTS
    Users = {alice, bob}
    Markets = {m1}
    Factory = Factory
    Resolver = Resolver
    Splitter = Splitter
    Admin = Admin
    Nobody = Nobody
    REDEEM_FEE_BPS = 1
    BPS = 2
    Endowment = 3
    MaxIssued = 2
    MaxTime = 1
    Bonds = {1}
    Windows = {0}
PROPERTY RedeemIsProRata
