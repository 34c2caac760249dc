SPECIFICATION FairSteadySpec
CONSTANTS
    c1 = c1
    c2 = c2
    c3 = c3
    btc = btc
    eth = eth
    Candle = {c1, c2, c3}
    Symbol = {btc, eth}
    SymbolOf <- MCSymbolOf
    OpenTime <- MCOpenTime
    Worker = {w1}
    BatchSize = 2
    MaxVersion = 2
INVARIANT ProcessedMeansCurrent
PROPERTY EveryCandleIsProcessed
CHECK_DEADLOCK FALSE
