SPECIFICATION Spec
CONSTANTS
    c1 = c1
    c2 = c2
    c3 = c3
    btc = btc
    eth = eth
    Candle = {c2, c3}
    Symbol = {btc, eth}
    SymbolOf <- MCSymbolOf
    OpenTime <- MCOpenTime
    Worker = {w1, w2}
    BatchSize = 2
    MaxVersion = 2
SYMMETRY WorkerSymmetry
INVARIANTS
    TypeOK
    StaleOnlyIfBuried
CHECK_DEADLOCK FALSE
