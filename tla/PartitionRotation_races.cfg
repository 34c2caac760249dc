SPECIFICATION Spec
CONSTANTS
    LastMonth = 3
    LastTable = 3
    MinMonthsToKeep = 0
    Writer = {w1, w2}
SYMMETRY WriterSymmetry
INVARIANTS
    TypeOK
    TablesAgree
    DroppedStaysDropped
PROPERTIES
    OldestFirst
