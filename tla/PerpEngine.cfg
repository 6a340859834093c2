SPECIFICATION Spec
CONSTANTS
    Users = {alice, bob}
    Markets = {btc}
    Wealth = 6
    Amounts = {3, 6}
    RateScale = 10
    MaxFundingRate = 1
    MaxTime = 2
    Prices = {4, 5, 6}
    Sizes = {10, 11}
    Margins = {2, 3}
    MaxLeverage = 5
    BPS = 10
    TRADE_FEE_BPS = 1
    MAINTENANCE_MARGIN_BPS = 2
    LIQUIDATION_BONUS_BPS = 5
    MaxOpens = 2
SYMMETRY Symmetry
INVARIANTS TotalsAgree Backed FreshPositionHealthy
PROPERTIES LossLimitedToMargin
