SPECIFICATION Spec
CONSTANTS
    Archive = {a1}
    Job = {j1, j2, j3}
    Batches = 2
    Retries <- MCRetries
SYMMETRY JobSymmetry
INVARIANTS
    LoggedDaysAreStored
CHECK_DEADLOCK FALSE
