SPECIFICATION Spec
CONSTANTS
    t1 = t1
    t2 = t2
    t3 = t3
    old = old
    new = new
    Trade = {t1, t2, t3}
    Minute = {old, new}
    MinuteOf <- MCMinuteOf
    OpenTime <- MCOpenTime
    MonthStart <- MCMonthStart
    Inserter = {i1, i2}
    Aggregator = {a1}
    ChunkMinutes = 2
INVARIANT EveryTickReachesItsCandle
