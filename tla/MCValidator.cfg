CONSTANTS
    o1 = o1
    o2 = o2
    Keys = {k1, k2}
    Outsider = Outsider
    JoinBuffer = 3
    Scopes <- MCScopes
SPECIFICATION MCSpec
INVARIANTS HandlerNeverFails StatusMatchesChain RowCountsAreTrue ActivityTotalsMatch
CHECK_DEADLOCK FALSE
