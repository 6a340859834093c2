SPECIFICATION SORSpec
CONSTANTS
    Users = {alice, bob}
    Spellings = {plain}
    MaxPrice = 1
    MarketBid = 1
    NaN = NaN
    MaxSize = 2
    MaxOrders = 3
    MaxExecutions = 1
SYMMETRY Symmetry
CHECK_DEADLOCK FALSE
INVARIANT NeverOverfilled
