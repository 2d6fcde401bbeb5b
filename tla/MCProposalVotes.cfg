CONSTANTS
    Accounts = {a, b}
    Answers = {yes, no}
    Keys = {k1}
    MaxValidators = 0
    MaxProposals = 2
    MaxDeposits = 3
    MaxVotes = 4
    MaxHeight = 1
SPECIFICATION Spec
INVARIANTS VotesRecorded
SYMMETRY ProposalSymmetry
