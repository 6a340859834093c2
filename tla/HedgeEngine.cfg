SPECIFICATION Spec
CONSTANTS
    Symbols = {AAPL, TSLA}
    Exposures <- MCExposures
    Ticks = {t1, t2}
    Once = once
    deltaThresholdUsd = 2
    deltaThresholdPct = 60
    maxOrderNotionalUsd = 3
    maxDailyNotionalUsd = 4
    maxOrdersPerCycle = 1
    maxOrdersPerDay = 3
    MaxEvents = 4
INVARIANTS LockIsExact CapsRespected
PROPERTIES HaltsForTheTick NoDoubleHedge EventuallyHedged
