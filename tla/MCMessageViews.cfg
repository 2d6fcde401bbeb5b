CONSTANTS
    StakingDenom = "cro"
    Distribution = "distr"
    V0_42_7 = 2
    KeylessAccounts = {"k"}
    AccountAddress <- MCAccountAddress
    Genesis <- MCGenesis
    Chains <- MCChains
    Lists <- MCLists
    Limit = 2
SPECIFICATION Spec
INVARIANTS NoOtherBlockStops SuccessIsTruth HandlersNeverFail ListsMatchTotals ViewsAgree StoredEventsDecode PagesAreComplete
CHECK_DEADLOCK FALSE
