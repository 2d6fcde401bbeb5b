CONSTANTS
    Batches = 2
    PoolSize = 4
    Projections = {p1, p2}
    Matchers = {m1}
    MaxHeight = 2
    MaxFaults = 1
    MaxCrashes = 1
SPECIFICATION Spec
INVARIANT FailedInsertRollsBack
SYMMETRY ClientSymmetry
