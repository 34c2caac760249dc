SPECIFICATION FairSpec
CONSTANTS
    c1 = c1
    c2 = c2
    Candle = {c1, c2}
    ChunkMinutes = 1
    BatchSize = 1
    MaxPosts = 1
INVARIANTS
    TypeOK
    BothAreTold
PROPERTY PassesBothQueues
