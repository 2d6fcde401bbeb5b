CONSTANTS
    LostReplies = TRUE
    MaxHeight = 4
    MaxFaults = 3
    MaxCrashes = 2
    Projections = {"ChainStats", "ValidatorStats", "Account"}
    Accounts = {a, b}
    NoAccount = NoAccount
    Denoms = {d1, d2}
    MaxLag = 1
    StatsHeight = 3
    LastHeight = 3
    AccountFaults = 1
    CoinDenoms = {1, 2}
    Blocks <- MCBlocks
    Geneses <- MCGeneses
SPECIFICATION MCSpec
INVARIANTS CountIsRight CountLagIsBounded StatsMatchBlocks AccountsAreFresh
CHECK_DEADLOCK FALSE
