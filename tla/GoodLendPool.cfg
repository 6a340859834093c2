SPECIFICATION LendSpec
CONSTANTS
    MaxTime = 2
    RAY = 1000
    Optimal = 800
    BaseRate = 100
    Slope1 = 200
    Slope2 = 600
    Users = {alice, bob}
    Treasury = treasury
    Assets = {eth, usd}
    Amounts = {600, 1000}
    Prices = {0, 1, 2}
    InitialPrice <- StartPrice
    Threshold = 8000
    Bonus = 10500
    Factors = {2000}
    Caps = {0}
    PREMIUM_BPS = 900
    MaxCalls <- CallBounds
SYMMETRY Symmetry
INVARIANTS SuppliesAreSums Solvent
PROPERTIES HealthLostOnlyToMarket
CHECK_DEADLOCK FALSE
