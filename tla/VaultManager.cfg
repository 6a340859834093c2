SPECIFICATION Spec
CONSTANTS
    Users = {alice, bob}
    Ilks = {eth}
    RAY = 2
    WAD = 2
    Rates = {3}
    Ratios = {3}
    Ceilings = {4}
    Prices = {1, 2}
    Growth <- MCGrowth
    MaxTime = 2
    MaxCollateral = 3
    MaxSupply = 5
SYMMETRY Symmetry
INVARIANTS LedgersAgree IlkDebtNotAhead NoUnsecuredDebt
PROPERTIES HealthLostOnlyToMarket
