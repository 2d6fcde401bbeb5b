------------------------------- MODULE Proposal -------------------------------
(***************************************************************************)
(* The governance projection (projection/proposal): proposals, deposits    *)
(* and votes, with the totals of both that the lists report, and the table *)
(* of validators that the lists are joined with (rdbvalidatorbase).        *)
(*                                                                         *)
(* An action handles one event, as in module NFT; the chain's rules about  *)
(* proposals guard the events, NextBlock commits.  A message that brings a *)
(* proposal to its minimal deposit is followed by the start of its voting  *)
(* period.                                                                 *)
(***************************************************************************)
EXTENDS Integers, Sequences, FiniteSets

CONSTANTS
    Accounts, Answers,
    Keys,           \* consensus keys of validators
    MaxValidators,  \* bound: rows of validators
    MaxProposals,   \* bound: proposals submitted
    MaxDeposits,    \* bound: deposits made
    MaxVotes,       \* bound: votes cast
    MaxHeight       \* bound: heights told apart

VARIABLES
    height,
    validators,     \* view_proposal_validators, in order
    proposals,      \* view_proposals, by id
    depositors,     \* view_proposal_depositors, in order
    depositorTotals,
    votes,          \* view_proposal_votes, by id and voter
    voteTotals,
    casts           \* history: the votes cast on the chain, in order

vars == <<height, validators, proposals, depositors, depositorTotals, votes, voteTotals, casts>>

Ids == 1..MaxProposals

Statuses == {"DEPOSIT_PERIOD", "VOTING_PERIOD", "INACTIVE", "PASSED", "FAILED", "REJECTED"}

-----------------------------------------------------------------------------
(* rdbvalidatorbase: a row for each operator and key it has had.  An account   *)
(* has one operator; monikers are left out.                                    *)

RowsOf(account) == {i \in DOMAIN validators : validators[i].account = account}

\* FindLastBy finds a row, by which an account is told to be a validator.
IsValidator(account) == RowsOf(account) # {}

Upsert(row) ==
    validators' = IF \E i \in DOMAIN validators : validators[i] = row THEN validators
                  ELSE Append(validators, row)

\* A key belongs to one validator for good, and a validator that is gone may come
\* back with another; so does a genesis validator.  Of a block's events the handler
\* takes these first.
MsgCreateValidator(account, key) ==
    /\ \A i \in DOMAIN validators : validators[i].key = key => validators[i].account = account
    /\ Len(validators) < MaxValidators
    /\ Upsert([account |-> account, key |-> key])
    /\ UNCHANGED <<height, proposals, depositors, depositorTotals, votes, voteTotals, casts>>

Increment(totals, id) ==
    [i \in DOMAIN totals \cup {id} |->
        IF i \notin DOMAIN totals THEN 1 ELSE IF i = id THEN totals[i] + 1 ELSE totals[i]]

-----------------------------------------------------------------------------
(* Submissions and deposits *)

\* A deposit row; amounts are in units of one deposit.
InsertDepositor(id, account) ==
    /\ Len(depositors) < MaxDeposits
    /\ depositors' = Append(depositors, [id |-> id, account |-> account, operator |-> IsValidator(account)])
    /\ depositorTotals' = Increment(depositorTotals, id)

NewProposal(account) ==
    [status |-> "DEPOSIT_PERIOD", proposer |-> account, operator |-> IsValidator(account), deposit |-> 1, vote |-> 0,
     votingFrom |-> -1, votingEnd |-> -1]

\* The five kinds of proposals that the parser knows.
MsgSubmitProposal(account) ==
    /\ Len(proposals) < MaxProposals
    /\ proposals' = Append(proposals, NewProposal(account))
    /\ InsertDepositor(Len(proposals) + 1, account)
    /\ UNCHANGED <<height, validators, votes, voteTotals, casts>>

MsgDeposit(id, account) ==
    /\ id \in DOMAIN proposals
    /\ proposals[id].status \in {"DEPOSIT_PERIOD", "VOTING_PERIOD"}
    /\ proposals' = [proposals EXCEPT ![id].deposit = @ + 1]
    /\ InsertDepositor(id, account)
    /\ UNCHANGED <<height, validators, votes, voteTotals, casts>>

-----------------------------------------------------------------------------
(* The life of a proposal *)

VotingPeriodStarted(id) ==
    /\ id \in DOMAIN proposals /\ proposals[id].status = "DEPOSIT_PERIOD"
    /\ proposals' = [proposals EXCEPT ![id].status = "VOTING_PERIOD", ![id].votingFrom = height]
    /\ UNCHANGED <<height, validators, depositors, depositorTotals, votes, voteTotals, casts>>

ProposalInactived(id) ==
    /\ id \in DOMAIN proposals /\ proposals[id].status = "DEPOSIT_PERIOD"
    /\ proposals' = [proposals EXCEPT ![id].status = "INACTIVE"]
    /\ UNCHANGED <<height, validators, depositors, depositorTotals, votes, voteTotals, casts>>

ProposalEnded(id) ==
    /\ id \in DOMAIN proposals /\ proposals[id].status = "VOTING_PERIOD"
    /\ \E result \in {"PASSED", "FAILED", "REJECTED"} :
          proposals' = [proposals EXCEPT ![id].status = result, ![id].votingEnd = height]
    /\ UNCHANGED <<height, validators, depositors, depositorTotals, votes, voteTotals, casts>>

-----------------------------------------------------------------------------
(* Votes *)

VoteRow(answer, operator, histories) ==
    [answer |-> answer, operator |-> operator, at |-> height, histories |-> histories]

\* Mutant of InsertVote: the total of the list is forgotten.
InsertVoteNoTotal(id, voter, answer) ==
    /\ votes' = [k \in DOMAIN votes \cup {<<id, voter>>} |->
           IF k = <<id, voter>> THEN VoteRow(answer, IsValidator(voter), << >>) ELSE votes[k]]
    /\ proposals' = [proposals EXCEPT ![id].vote = @ + 1]
    /\ UNCHANGED voteTotals

InsertVote(id, voter, answer) ==
    /\ votes' = [k \in DOMAIN votes \cup {<<id, voter>>} |->
           IF k = <<id, voter>> THEN VoteRow(answer, IsValidator(voter), << >>) ELSE votes[k]]
    /\ proposals' = [proposals EXCEPT ![id].vote = @ + 1]
    /\ voteTotals' = Increment(voteTotals, id)

Again(row, answer) ==
    VoteRow(answer, row.operator, Append(row.histories, [answer |-> row.answer, at |-> row.at]))

\* Mutant of UpdateVote: the older vote is written back.
UpdateVoteStale(id, voter, answer) ==
    /\ votes' = [k \in DOMAIN votes |->
           IF k[2] = voter THEN Again(votes[<<id, voter>>], votes[<<id, voter>>].answer)
           ELSE votes[k]]
    /\ UNCHANGED <<proposals, voteTotals>>

\* VotesView.Update writes every row of the voter, whatever its proposal.
UpdateVote(id, voter, answer) ==
    /\ votes' = [k \in DOMAIN votes |->
           IF k[2] = voter THEN Again(votes[<<id, voter>>], answer) ELSE votes[k]]
    /\ UNCHANGED <<proposals, voteTotals>>

MsgVote(id, voter, answer) ==
    /\ id \in DOMAIN proposals /\ proposals[id].status = "VOTING_PERIOD"
    /\ Len(casts) < MaxVotes
    /\ IF <<id, voter>> \in DOMAIN votes THEN UpdateVote(id, voter, answer)
       ELSE InsertVote(id, voter, answer)
    /\ casts' = Append(casts, [id |-> id, voter |-> voter, answer |-> answer, at |-> height])
    /\ UNCHANGED <<height, validators, depositors, depositorTotals>>

\* UpdateLastHandledEventHeight and Commit; heights beyond the bound are alike.
NextBlock ==
    /\ height' = IF height < MaxHeight THEN height + 1 ELSE height
    /\ UNCHANGED <<validators, proposals, depositors, depositorTotals, votes, voteTotals, casts>>

-----------------------------------------------------------------------------

Init ==
    /\ height = 0 /\ validators = << >> /\ casts = << >>
    /\ proposals = << >> /\ depositors = << >> /\ votes = << >>
    /\ depositorTotals = << >> /\ voteTotals = << >>

Event ==
    \/ \E a \in Accounts, key \in Keys : MsgCreateValidator(a, key)
    \/ \E a \in Accounts : MsgSubmitProposal(a)
    \/ \E id \in Ids :
          \/ \E a \in Accounts : MsgDeposit(id, a) \/ (\E answer \in Answers : MsgVote(id, a, answer))
          \/ VotingPeriodStarted(id) \/ ProposalInactived(id) \/ ProposalEnded(id)

Next == Event \/ NextBlock

Spec == Init /\ [][Next]_vars

-----------------------------------------------------------------------------
(* The lists: rows with their copies, and the total.  A row is joined with     *)
(* every row of its operator, if it has one, for the moniker.                  *)

Copies(row, account) == IF row.operator THEN RowsOf(account) ELSE {0}

FindBy(totals, id) == IF id \in DOMAIN totals THEN totals[id] ELSE 0

DepositsOf(id) == {i \in DOMAIN depositors : depositors[i].id = id}

\* DepositorsView.ListByProposalId
DepositorsList(id) ==
    [rows |-> UNION {{i} \X Copies(depositors[i], depositors[i].account) : i \in DepositsOf(id)},
     total |-> FindBy(depositorTotals, id)]

\* VotesView.ListByProposalId
VotesList(id) ==
    [rows |-> UNION {{k} \X Copies(votes[k], k[2]) : k \in {vote \in DOMAIN votes : vote[1] = id}},
     total |-> FindBy(voteTotals, id)]

\* ProposalsView.List counts what it lists.
ProposalsList(statuses) ==
    LET listed == {id \in DOMAIN proposals : proposals[id].status \in statuses}
        rows == UNION {{id} \X Copies(proposals[id], proposals[id].proposer) : id \in listed}
    IN  [rows |-> rows, total |-> Cardinality(rows)]

-----------------------------------------------------------------------------
(* Properties *)

VotersOf(id) == {casts[i].voter : i \in {j \in DOMAIN casts : casts[j].id = id}}

OnceAValidator == \A i, j \in DOMAIN validators : validators[i].account = validators[j].account => i = j

\* The votes of a proposal are counted twice, in its row and in a table of totals;
\* both are the number of accounts that voted, however often and in whatever order
\* with the other events of the proposal.  The total of the list of depositors and the
\* sum kept in the proposal agree, the initial deposit included.  The lists have as many
\* rows as their totals say, as long as no operator has come back with another key: its
\* rows are then listed twice, in the list of proposals too.
TotalsMatch ==
    /\ \A id \in DOMAIN proposals :
          LET made == Cardinality(DepositsOf(id))
          IN  /\ FindBy(depositorTotals, id) = made /\ proposals[id].deposit = made
              /\ FindBy(voteTotals, id) = Cardinality(VotersOf(id))
              /\ proposals[id].vote = Cardinality(VotersOf(id))
              /\ OnceAValidator =>
                    /\ Cardinality(DepositorsList(id).rows) = DepositorsList(id).total
                    /\ Cardinality(VotesList(id).rows) = VotesList(id).total
    /\ OnceAValidator => ProposalsList(Statuses).total = Len(proposals)

\* The answer of a cast is the one in the row of its proposal.
Recorded(cast) == votes[<<cast.id, cast.voter>>].answer = cast.answer

\* The last vote an account has cast is the answer in the row of its proposal.
LastVoteRecorded ==
    \A i \in DOMAIN casts :
        (\A j \in DOMAIN casts : j > i => casts[j].voter # casts[i].voter) => Recorded(casts[i])

\* A vote on a proposal that the account has voted on before ("vote record already
\* exists") replaces the answer in that record, and no other: every record has the
\* last answer its voter gave to its proposal.
VotesRecorded ==
    \A i \in DOMAIN casts :
        (\A j \in DOMAIN casts :
            j > i => casts[j].voter # casts[i].voter \/ casts[j].id # casts[i].id)
        => Recorded(casts[i])
=============================================================================
