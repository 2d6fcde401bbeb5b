CONSTANTS
    a = a
    b = b
    Chains = {a, b}
    Pairs <- MCPairs
    Extensions <- MCExtensions
    Supply = 3
    MaxEvents = 2
    EnableTxMsgTrace = TRUE
    Scopes <- MCScopes
SPECIFICATION Spec
INVARIANTS StopsOnlyAtLookalikes BondedTokensMatchChain ChannelRowsMatchChain RelayCountsMatch
CHECK_DEADLOCK FALSE
