SPECIFICATION FairSpec
CONSTANTS
    i1 = i1
    i2 = i2
    i3 = i3
    Item = {i1, i2, i3}
    ChunkSize = 2
    MaxPosts = 3
INVARIANTS
    TypeOK
    NoSleepOnWork
PROPERTY WorkGetsDone
