SPECIFICATION MatchingSpec
CONSTANTS
    Users = {alice, bob}
    Spellings = {plain, padded}
    MaxPrice = 1
    MarketBid = 1
    NaN = NaN
    MaxSize = 2
    MaxOrders = 3
SYMMETRY Symmetry
CHECK_DEADLOCK FALSE
INVARIANTS BookAgrees FillsAddUp CrossedOnlyBySelf SettledOnce
PROPERTIES PriceTimePriority
