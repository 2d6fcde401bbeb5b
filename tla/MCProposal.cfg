CONSTANTS
    Accounts = {a, b}
    Answers = {yes, no}
    Keys = {k1, k2}
    MaxValidators = 2
    MaxProposals = 2
    MaxDeposits = 2
    MaxVotes = 2
    MaxHeight = 1
SPECIFICATION Spec
INVARIANTS TotalsMatch LastVoteRecorded
SYMMETRY ProposalSymmetry
