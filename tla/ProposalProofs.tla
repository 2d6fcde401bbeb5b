---------------------------- MODULE ProposalProofs ----------------------------
(***************************************************************************)
(* Proofs about Proposal, for any accounts, answers and validators and any *)
(* number of events.                                                       *)
(***************************************************************************)
EXTENDS Proposal, FiniteSetTheorems, TLAPS

-----------------------------------------------------------------------------
(* The inductive invariant *)

ValidatorRow == [account : Accounts, key : Keys]

ProposalRow == [status : Statuses, proposer : Accounts, operator : BOOLEAN, deposit : Nat,
                vote : Nat, votingFrom : Int, votingEnd : Int]

DepositorRow == [id : Nat, account : Accounts, operator : BOOLEAN]

Cast == [id : Nat, voter : Accounts, answer : Answers, at : Nat]

TypeOK ==
    /\ height \in Nat
    /\ validators \in Seq(ValidatorRow)
    /\ proposals \in Seq(ProposalRow)
    /\ depositors \in Seq(DepositorRow)
    /\ \A k \in DOMAIN depositorTotals : depositorTotals[k] \in Nat
    /\ DOMAIN votes \subseteq Nat \X Accounts
    /\ \A k \in DOMAIN voteTotals : voteTotals[k] \in Nat
    /\ casts \in Seq(Cast)

\* Deposits and votes are of proposals that were submitted, and the votes of the
\* projection are those of the chain.
EventsOfProposals ==
    /\ \A i \in DOMAIN depositors : depositors[i].id \in DOMAIN proposals
    /\ \A i \in DOMAIN casts : casts[i].id \in DOMAIN proposals
    /\ DOMAIN votes = {<<casts[i].id, casts[i].voter>> : i \in DOMAIN casts}

\* A row with an operator is joined with some validator: no row of a validator goes.
OperatorsAreKnown ==
    /\ \A i \in DOMAIN depositors : depositors[i].operator => IsValidator(depositors[i].account)
    /\ \A i \in DOMAIN proposals : proposals[i].operator => IsValidator(proposals[i].proposer)
    /\ \A k \in DOMAIN votes : votes[k].operator \in BOOLEAN /\ (votes[k].operator => IsValidator(k[2]))

\* The tables of totals count for every identifier, those still to come included.
DepositsCounted ==
    \A id \in Nat :
        /\ FindBy(depositorTotals, id) = Cardinality(DepositsOf(id))
        /\ id \in DOMAIN proposals => proposals[id].deposit = Cardinality(DepositsOf(id))

VotesCounted ==
    \A id \in Nat :
        /\ IsFiniteSet(VotersOf(id)) /\ FindBy(voteTotals, id) = Cardinality(VotersOf(id))
        /\ id \in DOMAIN proposals => proposals[id].vote = Cardinality(VotersOf(id))

IndInv ==
    /\ TypeOK /\ EventsOfProposals /\ OperatorsAreKnown /\ DepositsCounted /\ VotesCounted
    /\ LastVoteRecorded

-----------------------------------------------------------------------------
(* Sets *)

\* Rows, each with every row that it is joined with
Join(S, joined) == UNION {{x} \X joined[x] : x \in S}

\* Rows that are each joined with one row are as many as before.
LEMMA JoinedOnce ==
    ASSUME NEW S, IsFiniteSet(S), NEW joined, \A x \in S : \E c : joined[x] = {c}
    PROVE  Cardinality(Join(S, joined)) = Cardinality(S)
  <1> DEFINE T == Join(S, joined)
             the(x) == CHOOSE c : joined[x] = {c}
             f == [x \in S |-> <<x, the(x)>>]
  <1>1. \A x \in S : joined[x] = {the(x)}
    OBVIOUS
  <1> HIDE DEF the
  <1>2. \A t : t \in T <=> \E x \in S : t = <<x, the(x)>>
    BY <1>1 DEF Join
  <1> HIDE DEF T
  <1>3. f \in Bijection(S, T)
    <2>1. f \in [S -> T]
      BY <1>2
    <2>2. \A x, y \in S : f[x] = f[y] => x = y
      OBVIOUS
    <2>3. \A t \in T : \E x \in S : f[x] = t
      BY <1>2
    <2> QED
      BY <2>1, <2>2, <2>3 DEF Bijection, Injection, Surjection, IsInjective
  <1>4. ExistsBijection(S, T)
    BY <1>3 DEF ExistsBijection
  <1> QED
    BY <1>4, FS_Bijection DEF T

\* A total grows by one where it is incremented, and nowhere else.
LEMMA IncrementCounts ==
    ASSUME NEW totals, NEW id, \A k \in DOMAIN totals : totals[k] \in Nat
    PROVE  /\ \A k \in DOMAIN Increment(totals, id) : Increment(totals, id)[k] \in Nat
           /\ \A k : FindBy(totals, k) \in Nat
           /\ \A k : FindBy(Increment(totals, id), k) =
                        FindBy(totals, k) + IF k = id THEN 1 ELSE 0
  BY DEF Increment, FindBy

\* The sets of indexes are finite.
LEMMA IndexesAreFinite ==
    ASSUME TypeOK
    PROVE  /\ \A id : IsFiniteSet(DepositsOf(id)) /\ Cardinality(DepositsOf(id)) \in Nat
           /\ IsFiniteSet(DOMAIN proposals) /\ Cardinality(DOMAIN proposals) = Len(proposals)
           /\ DOMAIN proposals \subseteq Nat
  <1>1. /\ DOMAIN depositors = 1..Len(depositors) /\ Len(depositors) \in Nat
        /\ DOMAIN proposals = 1..Len(proposals) /\ Len(proposals) \in Nat
    BY DEF TypeOK
  <1>2. IsFiniteSet(DOMAIN depositors)
    BY <1>1, FS_Interval
  <1>3. IsFiniteSet(DOMAIN proposals) /\ Cardinality(DOMAIN proposals) = Len(proposals)
    <2>1. \A n \in Nat : IsFiniteSet(1..n) /\ Cardinality(1..n) = n
      BY FS_Interval
    <2> QED
      BY <1>1, <2>1
  <1>4. ASSUME NEW id PROVE IsFiniteSet(DepositsOf(id)) /\ Cardinality(DepositsOf(id)) \in Nat
    <2>1. DepositsOf(id) \in SUBSET DOMAIN depositors
      BY DEF DepositsOf
    <2> QED
      BY <1>2, <2>1, FS_Subset, FS_CardinalityType
  <1> QED
    BY <1>1, <1>3, <1>4

-----------------------------------------------------------------------------
(* The handlers *)

\* A proposal, a deposit and a vote know whether their account is a validator.
LEMMA IsValidatorIsBoolean ==
    ASSUME NEW account
    PROVE  IsValidator(account) \in BOOLEAN
  BY DEF IsValidator

\* A validator stays one.
LEMMA ValidatorsStay ==
    ASSUME TypeOK, NEW row \in ValidatorRow, Upsert(row)
    PROVE  /\ validators' \in Seq(ValidatorRow)
           /\ \A account : IsValidator(account) => IsValidator(account)'
  <1>1. CASE validators' = validators
    BY <1>1 DEF TypeOK, IsValidator, RowsOf
  <1>2. CASE validators' = Append(validators, row)
    <2>1. /\ validators' \in Seq(ValidatorRow)
          /\ \A i \in DOMAIN validators : i \in DOMAIN validators' /\ validators'[i] = validators[i]
      BY <1>2 DEF TypeOK
    <2>2. \A account : RowsOf(account) \subseteq RowsOf(account)'
      BY <2>1 DEF RowsOf
    <2> QED
      BY <2>1, <2>2 DEF IsValidator
  <1> QED
    BY <1>1, <1>2 DEF Upsert

\* A deposit is counted for its proposal, and for no other.
LEMMA InsertDepositorStep ==
    ASSUME TypeOK, DepositsCounted, NEW id \in Nat, NEW account \in Accounts,
           InsertDepositor(id, account)
    PROVE  /\ depositors' \in Seq(DepositorRow)
           /\ \A k \in DOMAIN depositorTotals' : depositorTotals'[k] \in Nat
           /\ \A i \in DOMAIN depositors' :
                 \/ i \in DOMAIN depositors /\ depositors'[i] = depositors[i]
                 \/ /\ depositors'[i].id = id /\ depositors'[i].account = account
                    /\ depositors'[i].operator = IsValidator(account)
           /\ \A k \in Nat :
                 /\ FindBy(depositorTotals', k) = Cardinality(DepositsOf(k)')
                 /\ Cardinality(DepositsOf(k)') =
                       Cardinality(DepositsOf(k)) + IF k = id THEN 1 ELSE 0
  <1> DEFINE row == [id |-> id, account |-> account, operator |-> IsValidator(account)]
             n == Len(depositors) + 1
  <1>1. depositors' = Append(depositors, row) /\ depositorTotals' = Increment(depositorTotals, id)
    BY DEF InsertDepositor
  <1>2. row \in DepositorRow
    BY IsValidatorIsBoolean DEF DepositorRow
  <1>3. row.id = id /\ row.account = account /\ row.operator = IsValidator(account)
    OBVIOUS
  <1> HIDE DEF row
  <1>4. /\ depositors' \in Seq(DepositorRow) /\ n \notin DOMAIN depositors
        /\ DOMAIN depositors' = DOMAIN depositors \cup {n} /\ depositors'[n] = row
        /\ \A i \in DOMAIN depositors : depositors'[i] = depositors[i]
    BY <1>1, <1>2 DEF TypeOK
  <1> HIDE DEF n
  <1>5. \A k \in DOMAIN depositorTotals : depositorTotals[k] \in Nat
    BY DEF TypeOK
  <1>6. /\ \A k \in DOMAIN depositorTotals' : depositorTotals'[k] \in Nat
        /\ \A k : FindBy(depositorTotals', k) = FindBy(depositorTotals, k) + IF k = id THEN 1 ELSE 0
    <2>1. /\ \A k \in DOMAIN Increment(depositorTotals, id) : Increment(depositorTotals, id)[k] \in Nat
          /\ \A k : FindBy(Increment(depositorTotals, id), k) =
                       FindBy(depositorTotals, k) + IF k = id THEN 1 ELSE 0
      BY <1>5, IncrementCounts
    <2> QED
      BY <1>1, <2>1
  <1>7. ASSUME NEW k \in Nat
        PROVE  Cardinality(DepositsOf(k)') = Cardinality(DepositsOf(k)) + IF k = id THEN 1 ELSE 0
    <2>1. IsFiniteSet(DepositsOf(k)) /\ Cardinality(DepositsOf(k)) \in Nat
      BY IndexesAreFinite
    <2>2. CASE k = id
      <3>1. DepositsOf(k)' = DepositsOf(k) \cup {n} /\ n \notin DepositsOf(k)
        BY <1>3, <1>4, <2>2 DEF DepositsOf
      <3> QED
        BY <2>1, <2>2, <3>1, FS_AddElement
    <2>3. CASE k # id
      <3>1. DepositsOf(k)' = DepositsOf(k)
        BY <1>3, <1>4, <2>3 DEF DepositsOf
      <3> QED
        BY <2>1, <2>3, <3>1
    <2> QED
      BY <2>2, <2>3
  <1>8. \A k \in Nat : FindBy(depositorTotals', k) = Cardinality(DepositsOf(k)')
    BY <1>6, <1>7 DEF DepositsCounted
  <1> QED
    BY <1>3, <1>4, <1>6, <1>7, <1>8

-----------------------------------------------------------------------------
(* The steps *)

LEMMA MsgCreateValidatorStep ==
    ASSUME IndInv, NEW account \in Accounts, NEW key \in Keys, MsgCreateValidator(account, key)
    PROVE  IndInv'
  <1> DEFINE row == [account |-> account, key |-> key]
  <1>1. /\ UNCHANGED <<height, proposals, depositors, depositorTotals, votes, voteTotals, casts>>
        /\ Upsert(row)
    BY DEF MsgCreateValidator
  <1>2. row \in ValidatorRow
    BY DEF ValidatorRow
  <1> HIDE DEF row
  <1>3. /\ TypeOK /\ EventsOfProposals /\ OperatorsAreKnown /\ DepositsCounted /\ VotesCounted
        /\ LastVoteRecorded
    BY DEF IndInv
  <1>4. /\ validators' \in Seq(ValidatorRow)
        /\ \A a : IsValidator(a) => IsValidator(a)'
    BY <1>1, <1>2, <1>3, ValidatorsStay
  <1>5. TypeOK'
    BY <1>1, <1>3, <1>4 DEF TypeOK
  <1>6. EventsOfProposals'
    BY <1>1, <1>3 DEF EventsOfProposals
  <1>7. OperatorsAreKnown'
    BY <1>1, <1>3, <1>4 DEF OperatorsAreKnown
  <1>8. DepositsCounted'
    BY <1>1, <1>3 DEF DepositsCounted, DepositsOf, FindBy
  <1>9. VotesCounted'
    BY <1>1, <1>3 DEF VotesCounted, VotersOf, FindBy
  <1>10. LastVoteRecorded'
    BY <1>1, <1>3 DEF LastVoteRecorded, Recorded
  <1> QED
    BY <1>5, <1>6, <1>7, <1>8, <1>9, <1>10 DEF IndInv

LEMMA MsgSubmitProposalStep ==
    ASSUME IndInv, NEW account \in Accounts, MsgSubmitProposal(account)
    PROVE  IndInv'
  <1> DEFINE row == NewProposal(account)
             id == Len(proposals) + 1
  <1>1. /\ proposals' = Append(proposals, row) /\ InsertDepositor(id, account)
        /\ UNCHANGED <<height, validators, votes, voteTotals, casts>>
    BY DEF MsgSubmitProposal
  <1>2. /\ row \in ProposalRow /\ row.deposit = 1 /\ row.vote = 0
        /\ row.proposer = account /\ row.operator = IsValidator(account)
    BY IsValidatorIsBoolean DEF NewProposal, ProposalRow, Statuses
  <1> HIDE DEF row
  <1>3. /\ TypeOK /\ EventsOfProposals /\ OperatorsAreKnown /\ DepositsCounted /\ VotesCounted
        /\ LastVoteRecorded
    BY DEF IndInv
  <1>4. /\ proposals' \in Seq(ProposalRow) /\ id \in Nat /\ id \notin DOMAIN proposals
        /\ DOMAIN proposals' = DOMAIN proposals \cup {id} /\ proposals'[id] = row
        /\ \A k \in DOMAIN proposals : proposals'[k] = proposals[k]
    BY <1>1, <1>2, <1>3 DEF TypeOK
  <1> HIDE DEF id
  <1>5. /\ depositors' \in Seq(DepositorRow)
        /\ \A k \in DOMAIN depositorTotals' : depositorTotals'[k] \in Nat
        /\ \A i \in DOMAIN depositors' :
              \/ i \in DOMAIN depositors /\ depositors'[i] = depositors[i]
              \/ /\ depositors'[i].id = id /\ depositors'[i].account = account
                 /\ depositors'[i].operator = IsValidator(account)
        /\ \A k \in Nat :
              /\ FindBy(depositorTotals', k) = Cardinality(DepositsOf(k)')
              /\ Cardinality(DepositsOf(k)') =
                    Cardinality(DepositsOf(k)) + IF k = id THEN 1 ELSE 0
    BY <1>1, <1>3, <1>4, InsertDepositorStep
  <1>6. TypeOK'
    BY <1>1, <1>3, <1>4, <1>5 DEF TypeOK
  <1>7. EventsOfProposals'
    BY <1>1, <1>3, <1>4, <1>5 DEF EventsOfProposals
  <1>8. OperatorsAreKnown'
    <2>1. \A a : IsValidator(a)' = IsValidator(a)
      BY <1>1 DEF IsValidator, RowsOf
    <2>2. \A i \in DOMAIN depositors' :
             depositors'[i].operator => IsValidator(depositors'[i].account)
      BY <1>3, <1>5 DEF OperatorsAreKnown
    <2>3. \A i \in DOMAIN proposals' : proposals'[i].operator => IsValidator(proposals'[i].proposer)
      BY <1>2, <1>3, <1>4 DEF OperatorsAreKnown
    <2> QED
      BY <1>1, <1>3, <2>1, <2>2, <2>3 DEF OperatorsAreKnown
  <1>9. DepositsCounted'
    <2>1. DepositsOf(id) = {}
      BY <1>3, <1>4 DEF DepositsOf, EventsOfProposals
    <2>2. Cardinality(DepositsOf(id)) = 0
      BY <2>1, FS_EmptySet
    <2>3. ASSUME NEW k \in Nat, k \in DOMAIN proposals'
          PROVE  proposals'[k].deposit = Cardinality(DepositsOf(k)')
      <3>1. CASE k = id
        BY <1>2, <1>4, <1>5, <2>2, <3>1
      <3>2. CASE k # id
        <4>1. Cardinality(DepositsOf(k)') = Cardinality(DepositsOf(k)) + 0
          BY <1>5, <3>2
        <4>2. Cardinality(DepositsOf(k)) \in Nat
          BY <1>3, IndexesAreFinite
        <4>3. k \in DOMAIN proposals /\ proposals'[k] = proposals[k]
          BY <1>4, <2>3, <3>2
        <4>4. proposals[k].deposit = Cardinality(DepositsOf(k))
          BY <1>3, <4>3 DEF DepositsCounted
        <4> QED
          BY <4>1, <4>2, <4>3, <4>4
      <3> QED
        BY <3>1, <3>2
    <2> QED
      BY <1>5, <2>3 DEF DepositsCounted
  <1>10. VotesCounted'
    <2>1. \A k : VotersOf(k)' = VotersOf(k)
      BY <1>1 DEF VotersOf
    <2>2. VotersOf(id) = {}
      BY <1>3, <1>4 DEF VotersOf, EventsOfProposals
    <2>3. Cardinality(VotersOf(id)) = 0
      BY <2>2, FS_EmptySet
    <2>4. ASSUME NEW k \in Nat, k \in DOMAIN proposals'
          PROVE  proposals'[k].vote = Cardinality(VotersOf(k))
      BY <1>2, <1>3, <1>4, <2>3, <2>4 DEF VotesCounted
    <2>5. \A k \in Nat : FindBy(voteTotals', k) = FindBy(voteTotals, k)
      BY <1>1 DEF FindBy
    <2> QED
      BY <1>3, <2>1, <2>4, <2>5 DEF VotesCounted
  <1>11. LastVoteRecorded'
    BY <1>1, <1>3 DEF LastVoteRecorded, Recorded
  <1> QED
    BY <1>6, <1>7, <1>8, <1>9, <1>10, <1>11 DEF IndInv

LEMMA MsgDepositStep ==
    ASSUME IndInv, NEW id \in Ids, NEW account \in Accounts, MsgDeposit(id, account)
    PROVE  IndInv'
  <1>1. /\ id \in DOMAIN proposals /\ InsertDepositor(id, account)
        /\ proposals' = [proposals EXCEPT ![id].deposit = @ + 1]
        /\ UNCHANGED <<height, validators, votes, voteTotals, casts>>
    BY DEF MsgDeposit
  <1>2. /\ TypeOK /\ EventsOfProposals /\ OperatorsAreKnown /\ DepositsCounted /\ VotesCounted
        /\ LastVoteRecorded
    BY DEF IndInv
  <1>3. id \in Nat
    BY <1>1, <1>2, IndexesAreFinite
  <1>4. /\ proposals[id] \in ProposalRow
        /\ proposals' = [proposals EXCEPT ![id] = [proposals[id] EXCEPT !.deposit = @ + 1]]
    BY <1>1, <1>2 DEF TypeOK
  <1>5. PICK row : row = [proposals[id] EXCEPT !.deposit = @ + 1]
    OBVIOUS
  <1>6. /\ row \in ProposalRow /\ row.deposit = proposals[id].deposit + 1
        /\ row.vote = proposals[id].vote /\ row.proposer = proposals[id].proposer
        /\ row.operator = proposals[id].operator
    BY <1>4, <1>5 DEF ProposalRow
  <1>7. /\ proposals' \in Seq(ProposalRow) /\ DOMAIN proposals' = DOMAIN proposals
        /\ proposals'[id] = row /\ \A k \in DOMAIN proposals \ {id} : proposals'[k] = proposals[k]
    BY <1>1, <1>2, <1>4, <1>5, <1>6 DEF TypeOK
  <1>8. /\ depositors' \in Seq(DepositorRow)
        /\ \A k \in DOMAIN depositorTotals' : depositorTotals'[k] \in Nat
        /\ \A i \in DOMAIN depositors' :
              \/ i \in DOMAIN depositors /\ depositors'[i] = depositors[i]
              \/ /\ depositors'[i].id = id /\ depositors'[i].account = account
                 /\ depositors'[i].operator = IsValidator(account)
        /\ \A k \in Nat :
              /\ FindBy(depositorTotals', k) = Cardinality(DepositsOf(k)')
              /\ Cardinality(DepositsOf(k)') =
                    Cardinality(DepositsOf(k)) + IF k = id THEN 1 ELSE 0
    BY <1>1, <1>2, <1>3, InsertDepositorStep
  <1>9. TypeOK'
    BY <1>1, <1>2, <1>7, <1>8 DEF TypeOK
  <1>10. EventsOfProposals'
    BY <1>1, <1>2, <1>7, <1>8 DEF EventsOfProposals
  <1>11. OperatorsAreKnown'
    <2>1. \A a : IsValidator(a)' = IsValidator(a)
      BY <1>1 DEF IsValidator, RowsOf
    <2>2. \A i \in DOMAIN depositors' :
             depositors'[i].operator => IsValidator(depositors'[i].account)
      BY <1>2, <1>8 DEF OperatorsAreKnown
    <2>3. \A i \in DOMAIN proposals' : proposals'[i].operator => IsValidator(proposals'[i].proposer)
      BY <1>1, <1>2, <1>6, <1>7 DEF OperatorsAreKnown
    <2> QED
      BY <1>1, <1>2, <2>1, <2>2, <2>3 DEF OperatorsAreKnown
  <1>12. DepositsCounted'
    <2>1. ASSUME NEW k \in Nat, k \in DOMAIN proposals'
          PROVE  proposals'[k].deposit = Cardinality(DepositsOf(k)')
      <3>1. /\ Cardinality(DepositsOf(k)') = Cardinality(DepositsOf(k)) + IF k = id THEN 1 ELSE 0
            /\ Cardinality(DepositsOf(k)) \in Nat
        BY <1>2, <1>8, IndexesAreFinite
      <3>2. proposals[k].deposit = Cardinality(DepositsOf(k))
        BY <1>2, <1>7, <2>1 DEF DepositsCounted
      <3>3. CASE k = id
        BY <1>6, <1>7, <3>1, <3>2, <3>3
      <3>4. CASE k # id
        BY <1>7, <2>1, <3>1, <3>2, <3>4
      <3> QED
        BY <3>3, <3>4
    <2> QED
      BY <1>8, <2>1 DEF DepositsCounted
  <1>13. VotesCounted'
    <2>1. \A k : VotersOf(k)' = VotersOf(k) /\ FindBy(voteTotals', k) = FindBy(voteTotals, k)
      BY <1>1 DEF VotersOf, FindBy
    <2>2. \A k \in DOMAIN proposals : proposals'[k].vote = proposals[k].vote
      BY <1>6, <1>7
    <2> QED
      BY <1>2, <1>7, <2>1, <2>2 DEF VotesCounted
  <1>14. LastVoteRecorded'
    BY <1>1, <1>2 DEF LastVoteRecorded, Recorded
  <1> QED
    BY <1>9, <1>10, <1>11, <1>12, <1>13, <1>14 DEF IndInv

\* The end of a period rewrites the row of a proposal, with the sums it has.
LEMMA PeriodStep ==
    ASSUME IndInv, NEW id \in DOMAIN proposals, NEW row \in ProposalRow,
           row.deposit = proposals[id].deposit, row.vote = proposals[id].vote,
           row.proposer = proposals[id].proposer, row.operator = proposals[id].operator,
           proposals' = [proposals EXCEPT ![id] = row],
           UNCHANGED <<height, validators, depositors, depositorTotals, votes, voteTotals, casts>>
    PROVE  IndInv'
  <1>1. /\ TypeOK /\ EventsOfProposals /\ OperatorsAreKnown /\ DepositsCounted /\ VotesCounted
        /\ LastVoteRecorded
    BY DEF IndInv
  <1>2. /\ proposals' \in Seq(ProposalRow) /\ DOMAIN proposals' = DOMAIN proposals
        /\ \A k \in DOMAIN proposals :
              /\ proposals'[k].deposit = proposals[k].deposit
              /\ proposals'[k].vote = proposals[k].vote
              /\ proposals'[k].proposer = proposals[k].proposer
              /\ proposals'[k].operator = proposals[k].operator
    BY <1>1 DEF TypeOK
  <1>3. TypeOK'
    BY <1>1, <1>2 DEF TypeOK
  <1>4. EventsOfProposals'
    BY <1>1, <1>2 DEF EventsOfProposals
  <1>5. OperatorsAreKnown'
    <2>1. \A a : IsValidator(a)' = IsValidator(a)
      BY DEF IsValidator, RowsOf
    <2> QED
      BY <1>1, <1>2, <2>1 DEF OperatorsAreKnown
  <1>6. DepositsCounted'
    BY <1>1, <1>2 DEF DepositsCounted, DepositsOf, FindBy
  <1>7. VotesCounted'
    <2>1. \A k : VotersOf(k)' = VotersOf(k)
      BY DEF VotersOf
    <2> QED
      BY <1>1, <1>2, <2>1 DEF VotesCounted, FindBy
  <1>8. LastVoteRecorded'
    BY <1>1 DEF LastVoteRecorded, Recorded
  <1> QED
    BY <1>3, <1>4, <1>5, <1>6, <1>7, <1>8 DEF IndInv

LEMMA VotingPeriodStartedStep ==
    ASSUME IndInv, NEW id \in Ids, VotingPeriodStarted(id)
    PROVE  IndInv'
  <1>1. id \in DOMAIN proposals /\ proposals[id] \in ProposalRow /\ height \in Nat
    BY DEF VotingPeriodStarted, IndInv, TypeOK
  <1>2. PICK row : row = [proposals[id] EXCEPT !.status = "VOTING_PERIOD", !.votingFrom = height]
    OBVIOUS
  <1>3. /\ row \in ProposalRow
        /\ row.deposit = proposals[id].deposit /\ row.vote = proposals[id].vote
        /\ row.proposer = proposals[id].proposer /\ row.operator = proposals[id].operator
    <2>1. PICK old : old = proposals[id]
      OBVIOUS
    <2>2. row = [old EXCEPT !.status = "VOTING_PERIOD", !.votingFrom = height]
      BY <1>2, <2>1
    <2>3. "VOTING_PERIOD" \in Statuses /\ height \in Int
      BY <1>1 DEF Statuses
    <2>4. old \in ProposalRow
      BY <1>1, <2>1
    <2>5. row \in ProposalRow
      BY <2>2, <2>3, <2>4 DEF ProposalRow
    <2>6. /\ row.deposit = old.deposit /\ row.vote = old.vote
          /\ row.proposer = old.proposer /\ row.operator = old.operator
      BY <2>2, <2>4 DEF ProposalRow
    <2> QED
      BY <2>1, <2>5, <2>6
  <1>4. proposals' = [proposals EXCEPT ![id] = row]
    BY <1>1, <1>2 DEF VotingPeriodStarted, IndInv, TypeOK, ProposalRow
  <1>5. UNCHANGED <<height, validators, depositors, depositorTotals, votes, voteTotals, casts>>
    BY DEF VotingPeriodStarted
  <1> QED
    BY <1>1, <1>3, <1>4, <1>5, PeriodStep

LEMMA ProposalInactivedStep ==
    ASSUME IndInv, NEW id \in Ids, ProposalInactived(id)
    PROVE  IndInv'
  <1>1. id \in DOMAIN proposals /\ proposals[id] \in ProposalRow
    BY DEF ProposalInactived, IndInv, TypeOK
  <1>2. PICK row : row = [proposals[id] EXCEPT !.status = "INACTIVE"]
    OBVIOUS
  <1>3. /\ row \in ProposalRow
        /\ row.deposit = proposals[id].deposit /\ row.vote = proposals[id].vote
        /\ row.proposer = proposals[id].proposer /\ row.operator = proposals[id].operator
    BY <1>1, <1>2 DEF ProposalRow, Statuses
  <1>4. proposals' = [proposals EXCEPT ![id] = row]
    BY <1>1, <1>2 DEF ProposalInactived, IndInv, TypeOK, ProposalRow
  <1>5. UNCHANGED <<height, validators, depositors, depositorTotals, votes, voteTotals, casts>>
    BY DEF ProposalInactived
  <1> QED
    BY <1>1, <1>3, <1>4, <1>5, PeriodStep

LEMMA ProposalEndedStep ==
    ASSUME IndInv, NEW id \in Ids, ProposalEnded(id)
    PROVE  IndInv'
  <1>1. id \in DOMAIN proposals /\ proposals[id] \in ProposalRow /\ height \in Nat
    BY DEF ProposalEnded, IndInv, TypeOK
  <1>2. PICK result \in {"PASSED", "FAILED", "REJECTED"} :
           proposals' = [proposals EXCEPT ![id].status = result, ![id].votingEnd = height]
    BY DEF ProposalEnded
  <1>3. PICK row : row = [proposals[id] EXCEPT !.status = result, !.votingEnd = height]
    OBVIOUS
  <1>4. /\ row \in ProposalRow
        /\ row.deposit = proposals[id].deposit /\ row.vote = proposals[id].vote
        /\ row.proposer = proposals[id].proposer /\ row.operator = proposals[id].operator
    <2>1. PICK old : old = proposals[id]
      OBVIOUS
    <2>2. row = [old EXCEPT !.status = result, !.votingEnd = height]
      BY <1>3, <2>1
    <2>3. result \in Statuses /\ height \in Int
      BY <1>1 DEF Statuses
    <2>4. old \in ProposalRow
      BY <1>1, <2>1
    <2>5. row \in ProposalRow
      BY <2>2, <2>3, <2>4 DEF ProposalRow
    <2>6. /\ row.deposit = old.deposit /\ row.vote = old.vote
          /\ row.proposer = old.proposer /\ row.operator = old.operator
      BY <2>2, <2>4 DEF ProposalRow
    <2> QED
      BY <2>1, <2>5, <2>6
  <1>5. proposals' = [proposals EXCEPT ![id] = row]
    BY <1>1, <1>2, <1>3 DEF IndInv, TypeOK, ProposalRow
  <1>6. UNCHANGED <<height, validators, depositors, depositorTotals, votes, voteTotals, casts>>
    BY DEF ProposalEnded
  <1> QED
    BY <1>1, <1>4, <1>5, <1>6, PeriodStep

\* The first vote of an account on a proposal makes a record.
LEMMA InsertVoteStep ==
    ASSUME OperatorsAreKnown, NEW id, NEW voter \in Accounts, NEW answer,
           NEW key, key = <<id, voter>>, key \notin DOMAIN votes, InsertVote(id, voter, answer)
    PROVE  /\ DOMAIN votes' = DOMAIN votes \cup {key}
           /\ votes'[key].answer = answer
           /\ \A k \in DOMAIN votes : k[2] # voter => votes'[k] = votes[k]
           /\ \A k \in DOMAIN votes' :
                 /\ votes'[k].operator \in BOOLEAN
                 /\ votes'[k].operator => IsValidator(k[2])
  <1>1. PICK row : row = VoteRow(answer, IsValidator(voter), << >>)
    OBVIOUS
  <1>2. row.answer = answer /\ row.operator = IsValidator(voter)
    BY <1>1 DEF VoteRow
  <1>3. votes' = [k \in DOMAIN votes \cup {key} |-> IF k = key THEN row ELSE votes[k]]
    BY <1>1 DEF InsertVote
  <1>4. /\ DOMAIN votes' = DOMAIN votes \cup {key} /\ votes'[key] = row
        /\ \A k \in DOMAIN votes : votes'[k] = votes[k]
    BY <1>3
  <1>5. IsValidator(voter) \in BOOLEAN /\ key[2] = voter
    BY IsValidatorIsBoolean
  <1> QED
    BY <1>2, <1>4, <1>5 DEF OperatorsAreKnown

\* Another vote rewrites all the records of its voter: the one of its proposal has the
\* answer, and the records of other accounts stay.
LEMMA UpdateVoteStep ==
    ASSUME OperatorsAreKnown, NEW id, NEW voter \in Accounts, NEW answer,
           NEW key, key = <<id, voter>>, key \in DOMAIN votes, UpdateVote(id, voter, answer)
    PROVE  /\ DOMAIN votes' = DOMAIN votes
           /\ votes'[key].answer = answer
           /\ \A k \in DOMAIN votes : k[2] # voter => votes'[k] = votes[k]
           /\ \A k \in DOMAIN votes' :
                 /\ votes'[k].operator \in BOOLEAN
                 /\ votes'[k].operator => IsValidator(k[2])
  <1>1. PICK old, row : old = votes[key] /\ row = Again(old, answer)
    OBVIOUS
  <1>2. row.answer = answer /\ row.operator = old.operator
    BY <1>1 DEF Again, VoteRow
  <1>3. votes' = [k \in DOMAIN votes |-> IF k[2] = voter THEN row ELSE votes[k]]
    BY <1>1 DEF UpdateVote
  <1>4. key[2] = voter
    OBVIOUS
  <1>5. /\ DOMAIN votes' = DOMAIN votes /\ votes'[key] = row
        /\ \A k \in DOMAIN votes : votes'[k] = IF k[2] = voter THEN row ELSE votes[k]
    BY <1>3, <1>4
  <1>6. old.operator \in BOOLEAN /\ (old.operator => IsValidator(voter))
    BY <1>1, <1>4 DEF OperatorsAreKnown
  <1>7. ASSUME NEW k \in DOMAIN votes
        PROVE  /\ votes'[k].operator \in BOOLEAN
               /\ votes'[k].operator => IsValidator(k[2])
    <2>1. CASE k[2] = voter
      BY <1>2, <1>5, <1>6, <2>1
    <2>2. CASE k[2] # voter
      BY <1>5, <2>2 DEF OperatorsAreKnown
    <2> QED
      BY <2>1, <2>2
  <1> QED
    BY <1>2, <1>5, <1>7

LEMMA MsgVoteStep ==
    ASSUME IndInv, NEW id \in Ids, NEW voter \in Accounts, NEW answer \in Answers,
           MsgVote(id, voter, answer)
    PROVE  IndInv'
  <1> DEFINE cast == [id |-> id, voter |-> voter, answer |-> answer, at |-> height]
             n == Len(casts) + 1
             key == <<id, voter>>
  <1>1. /\ id \in DOMAIN proposals /\ casts' = Append(casts, cast)
        /\ IF key \in DOMAIN votes THEN UpdateVote(id, voter, answer)
           ELSE InsertVote(id, voter, answer)
        /\ UNCHANGED <<height, validators, depositors, depositorTotals>>
    BY DEF MsgVote
  <1>2. /\ TypeOK /\ EventsOfProposals /\ OperatorsAreKnown /\ DepositsCounted /\ VotesCounted
        /\ LastVoteRecorded
    BY DEF IndInv
  <1>3. id \in Nat
    BY <1>1, <1>2, IndexesAreFinite
  <1>4. cast \in Cast
    BY <1>2, <1>3 DEF Cast, TypeOK
  <1>5. cast.id = id /\ cast.voter = voter /\ cast.answer = answer
    OBVIOUS
  <1> HIDE DEF cast
  <1>6. /\ casts' \in Seq(Cast) /\ n \notin DOMAIN casts /\ DOMAIN casts' = DOMAIN casts \cup {n}
        /\ casts'[n] = cast /\ \A i \in DOMAIN casts : casts'[i] = casts[i] /\ n > i
    BY <1>1, <1>2, <1>4 DEF TypeOK
  <1> HIDE DEF n
  <1>7. key = <<id, voter>> /\ key[1] = id /\ key[2] = voter /\ key \in Nat \X Accounts
    BY <1>3
  <1> HIDE DEF key
  <1>8. /\ DOMAIN votes' = DOMAIN votes \cup {key}
        /\ votes'[key].answer = answer
        /\ \A k \in DOMAIN votes : k[2] # voter => votes'[k] = votes[k]
        /\ \A k \in DOMAIN votes' :
              /\ votes'[k].operator \in BOOLEAN
              /\ votes'[k].operator => IsValidator(k[2])
    <2>1. CASE key \notin DOMAIN votes
      <3>1. InsertVote(id, voter, answer)
        BY <1>1, <2>1
      <3> QED
        BY <1>2, <1>7, <2>1, <3>1, InsertVoteStep
    <2>2. CASE key \in DOMAIN votes
      <3>1. UpdateVote(id, voter, answer)
        BY <1>1, <2>2
      <3>2. DOMAIN votes = DOMAIN votes \cup {key}
        BY <2>2
      <3> QED
        BY <1>2, <1>7, <2>2, <3>1, <3>2, UpdateVoteStep
    <2> QED
      BY <2>1, <2>2
  <1>9. key \in DOMAIN votes <=> voter \in VotersOf(id)
    BY <1>2, <1>7 DEF EventsOfProposals, VotersOf
  <1>10. /\ \A k \in DOMAIN voteTotals' : voteTotals'[k] \in Nat
         /\ \A k : FindBy(voteTotals', k) =
                      FindBy(voteTotals, k) + IF k = id /\ key \notin DOMAIN votes THEN 1 ELSE 0
    <2>1. \A k \in DOMAIN voteTotals : voteTotals[k] \in Nat
      BY <1>2 DEF TypeOK
    <2>2. /\ \A k \in DOMAIN Increment(voteTotals, id) : Increment(voteTotals, id)[k] \in Nat
          /\ \A k : FindBy(voteTotals, k) \in Nat
          /\ \A k : FindBy(Increment(voteTotals, id), k) =
                       FindBy(voteTotals, k) + IF k = id THEN 1 ELSE 0
      BY <2>1, IncrementCounts
    <2>3. CASE key \in DOMAIN votes
      <3>1. voteTotals' = voteTotals
        BY <1>1, <2>3 DEF UpdateVote
      <3> QED
        BY <2>1, <2>2, <2>3, <3>1
    <2>4. CASE key \notin DOMAIN votes
      <3>1. voteTotals' = Increment(voteTotals, id)
        BY <1>1, <2>4 DEF InsertVote
      <3> QED
        BY <2>2, <2>4, <3>1
    <2> QED
      BY <2>3, <2>4
  <1>11. /\ proposals' \in Seq(ProposalRow) /\ DOMAIN proposals' = DOMAIN proposals
         /\ \A k \in DOMAIN proposals :
               /\ proposals'[k].vote =
                     proposals[k].vote + IF k = id /\ key \notin DOMAIN votes THEN 1 ELSE 0
               /\ proposals'[k].deposit = proposals[k].deposit
               /\ proposals'[k].proposer = proposals[k].proposer
               /\ proposals'[k].operator = proposals[k].operator
    <2>1. \A k \in DOMAIN proposals : proposals[k] \in ProposalRow /\ proposals[k].vote \in Nat
      <3>1. \A k \in DOMAIN proposals : proposals[k] \in ProposalRow
        BY <1>2 DEF TypeOK
      <3> QED
        BY <3>1 DEF ProposalRow
    <2>2. CASE key \in DOMAIN votes
      <3>1. proposals' = proposals
        BY <1>1, <2>2 DEF UpdateVote
      <3> QED
        BY <1>2, <2>1, <2>2, <3>1 DEF TypeOK
    <2>3. CASE key \notin DOMAIN votes
      <3>1. PICK row : row = [proposals[id] EXCEPT !.vote = @ + 1]
        OBVIOUS
      <3>2. proposals[id] \in ProposalRow
        BY <1>1, <2>1
      <3>3. /\ row \in ProposalRow /\ row.vote = proposals[id].vote + 1
            /\ row.deposit = proposals[id].deposit /\ row.proposer = proposals[id].proposer
            /\ row.operator = proposals[id].operator
        BY <3>1, <3>2 DEF ProposalRow
      <3>4. proposals' = [proposals EXCEPT ![id].vote = @ + 1]
        BY <1>1, <2>3 DEF InsertVote
      <3>5. /\ proposals' \in Seq(ProposalRow) /\ DOMAIN proposals' = DOMAIN proposals
            /\ proposals'[id] = row
            /\ \A k \in DOMAIN proposals \ {id} : proposals'[k] = proposals[k]
        BY <1>1, <1>2, <3>1, <3>3, <3>4 DEF TypeOK
      <3> QED
        BY <2>1, <2>3, <3>3, <3>5
    <2> QED
      BY <2>2, <2>3
  <1>12. TypeOK'
    BY <1>1, <1>2, <1>6, <1>7, <1>8, <1>10, <1>11 DEF TypeOK
  <1>13. EventsOfProposals'
    <2>1. \A i \in DOMAIN casts' : casts'[i].id \in DOMAIN proposals
      BY <1>1, <1>2, <1>5, <1>6 DEF EventsOfProposals
    <2>2. {<<casts'[i].id, casts'[i].voter>> : i \in DOMAIN casts'} =
             {<<casts[i].id, casts[i].voter>> : i \in DOMAIN casts} \cup {key}
      BY <1>5, <1>6, <1>7
    <2> QED
      BY <1>1, <1>2, <1>8, <1>11, <2>1, <2>2 DEF EventsOfProposals
  <1>14. OperatorsAreKnown'
    <2>1. \A a : IsValidator(a)' = IsValidator(a)
      BY <1>1 DEF IsValidator, RowsOf
    <2> QED
      BY <1>1, <1>2, <1>8, <1>11, <2>1 DEF OperatorsAreKnown
  <1>15. DepositsCounted'
    BY <1>1, <1>2, <1>11 DEF DepositsCounted, DepositsOf, FindBy
  <1>16. VotesCounted'
    <2>1. ASSUME NEW k \in Nat
          PROVE  /\ IsFiniteSet(VotersOf(k)')
                 /\ Cardinality(VotersOf(k)') = Cardinality(VotersOf(k)) +
                       IF k = id /\ key \notin DOMAIN votes THEN 1 ELSE 0
      <3>1. IsFiniteSet(VotersOf(k)) /\ Cardinality(VotersOf(k)) \in Nat
        BY <1>2, FS_CardinalityType DEF VotesCounted
      <3>2. CASE k = id
        <4>1. VotersOf(k)' = VotersOf(k) \cup {voter}
          BY <1>5, <1>6, <3>2 DEF VotersOf
        <4> QED
          BY <1>9, <3>1, <3>2, <4>1, FS_AddElement
      <3>3. CASE k # id
        <4>1. VotersOf(k)' = VotersOf(k)
          BY <1>5, <1>6, <3>3 DEF VotersOf
        <4> QED
          BY <3>1, <3>3, <4>1
      <3> QED
        BY <3>2, <3>3
    <2> QED
      BY <1>2, <1>10, <1>11, <2>1 DEF VotesCounted
  <1>17. LastVoteRecorded'
    <2> SUFFICES ASSUME NEW i \in DOMAIN casts',
                        \A j \in DOMAIN casts' : j > i => casts'[j].voter # casts'[i].voter
                 PROVE  votes'[<<casts'[i].id, casts'[i].voter>>].answer = casts'[i].answer
      BY DEF LastVoteRecorded, Recorded
    <2>1. CASE i = n
      BY <1>5, <1>6, <1>7, <1>8, <2>1
    <2>2. CASE i # n
      <3>1. i \in DOMAIN casts /\ casts'[i] = casts[i] /\ n > i
        BY <1>6, <2>2
      <3>2. casts[i].voter # voter
        BY <1>5, <1>6, <3>1
      <3>3. \A j \in DOMAIN casts : j > i => casts[j].voter # casts[i].voter
        BY <1>6, <3>1
      <3>4. votes[<<casts[i].id, casts[i].voter>>].answer = casts[i].answer
        BY <1>2, <3>1, <3>3 DEF LastVoteRecorded, Recorded
      <3>5. PICK k : k = <<casts[i].id, casts[i].voter>>
        OBVIOUS
      <3>6. k \in DOMAIN votes /\ k[2] # voter
        BY <1>2, <3>1, <3>2, <3>5 DEF EventsOfProposals
      <3>7. votes'[k] = votes[k]
        BY <1>8, <3>6
      <3> QED
        BY <3>1, <3>4, <3>5, <3>7
    <2> QED
      BY <2>1, <2>2
  <1> QED
    BY <1>12, <1>13, <1>14, <1>15, <1>16, <1>17 DEF IndInv

\* A block that ends changes nothing but the height, and a stutter not even that.
LEMMA HeightStep ==
    ASSUME IndInv, height' \in Nat,
           UNCHANGED <<validators, proposals, depositors, depositorTotals, votes, voteTotals, casts>>
    PROVE  IndInv'
  <1>1. TypeOK' /\ EventsOfProposals'
    BY DEF IndInv, TypeOK, EventsOfProposals
  <1>2. OperatorsAreKnown'
    BY DEF IndInv, OperatorsAreKnown, IsValidator, RowsOf
  <1>3. DepositsCounted'
    BY DEF IndInv, DepositsCounted, DepositsOf, FindBy
  <1>4. VotesCounted'
    BY DEF IndInv, VotesCounted, VotersOf, FindBy
  <1>5. LastVoteRecorded'
    BY DEF IndInv, LastVoteRecorded, Recorded
  <1> QED
    BY <1>1, <1>2, <1>3, <1>4, <1>5 DEF IndInv

-----------------------------------------------------------------------------
(* The theorems *)

\* The tables start empty.
LEMMA InitialState ==
    ASSUME Init
    PROVE  IndInv
  <1>1. /\ height = 0 /\ validators = << >> /\ casts = << >>
        /\ proposals = << >> /\ depositors = << >> /\ votes = << >>
        /\ depositorTotals = << >> /\ voteTotals = << >>
    BY DEF Init
  <1>2. /\ DOMAIN validators = {} /\ DOMAIN casts = {} /\ DOMAIN proposals = {}
        /\ DOMAIN depositors = {} /\ DOMAIN votes = {}
        /\ DOMAIN depositorTotals = {} /\ DOMAIN voteTotals = {}
    BY <1>1
  <1>3. IsFiniteSet({}) /\ Cardinality({}) = 0
    BY FS_EmptySet
  <1>4. TypeOK
    BY <1>1, <1>2 DEF TypeOK
  <1>5. EventsOfProposals
    BY <1>2 DEF EventsOfProposals
  <1>6. OperatorsAreKnown
    BY <1>2 DEF OperatorsAreKnown
  <1>7. DepositsCounted
    <2>1. \A id : DepositsOf(id) = {}
      BY <1>2 DEF DepositsOf
    <2> QED
      BY <1>2, <1>3, <2>1 DEF DepositsCounted, FindBy
  <1>8. VotesCounted
    <2>1. \A id : VotersOf(id) = {}
      BY <1>2 DEF VotersOf
    <2> QED
      BY <1>2, <1>3, <2>1 DEF VotesCounted, FindBy
  <1>9. LastVoteRecorded
    BY <1>2 DEF LastVoteRecorded
  <1> QED
    BY <1>4, <1>5, <1>6, <1>7, <1>8, <1>9 DEF IndInv

\* Every event keeps the inductive invariant, and so does a commit.
LEMMA NextKeepsInvariant ==
    ASSUME IndInv, [Next]_vars
    PROVE  IndInv'
  <1>1. CASE UNCHANGED vars \/ NextBlock
    <2>1. height' \in Nat
      BY <1>1 DEF vars, NextBlock, IndInv, TypeOK
    <2>2. UNCHANGED <<validators, proposals, depositors, depositorTotals, votes, voteTotals, casts>>
      BY <1>1 DEF vars, NextBlock
    <2> QED
      BY <2>1, <2>2, HeightStep
  <1>2. ASSUME NEW a \in Accounts, NEW key \in Keys, MsgCreateValidator(a, key)
        PROVE  IndInv'
    BY <1>2, MsgCreateValidatorStep
  <1>3. ASSUME NEW a \in Accounts, MsgSubmitProposal(a)
        PROVE  IndInv'
    BY <1>3, MsgSubmitProposalStep
  <1>4. ASSUME NEW id \in Ids, NEW a \in Accounts, MsgDeposit(id, a)
        PROVE  IndInv'
    BY <1>4, MsgDepositStep
  <1>5. ASSUME NEW id \in Ids, NEW a \in Accounts, NEW answer \in Answers, MsgVote(id, a, answer)
        PROVE  IndInv'
    BY <1>5, MsgVoteStep
  <1>6. ASSUME NEW id \in Ids, VotingPeriodStarted(id)
        PROVE  IndInv'
    BY <1>6, VotingPeriodStartedStep
  <1>7. ASSUME NEW id \in Ids, ProposalInactived(id)
        PROVE  IndInv'
    BY <1>7, ProposalInactivedStep
  <1>8. ASSUME NEW id \in Ids, ProposalEnded(id)
        PROVE  IndInv'
    BY <1>8, ProposalEndedStep
  <1> QED
    BY <1>1, <1>2, <1>3, <1>4, <1>5, <1>6, <1>7, <1>8 DEF Next, Event

\* The tables have their types, every row belongs to a proposal and, if it is of an
\* operator, to a validator, and the totals count what happened on the chain.
THEOREM Invariance == Spec => []IndInv
  <1>1. Init => IndInv
    BY InitialState
  <1>2. IndInv /\ [Next]_vars => IndInv'
    BY NextKeepsInvariant
  <1> QED
    BY <1>1, <1>2, PTL DEF Spec

\* A row is joined with one validator, if it is joined with any, while no operator has
\* two rows.
LEMMA CopiesAreSingle ==
    ASSUME OnceAValidator, NEW row, NEW account, row.operator => IsValidator(account)
    PROVE  \E c : Copies(row, account) = {c}
  <1>1. CASE row.operator
    <2>1. PICK c : c \in RowsOf(account)
      BY <1>1 DEF IsValidator
    <2>2. \A d \in RowsOf(account) : d = c
      BY <2>1 DEF RowsOf, OnceAValidator
    <2> QED
      BY <1>1, <2>1, <2>2 DEF Copies
  <1>2. CASE ~row.operator
    BY <1>2 DEF Copies
  <1> QED
    BY <1>1, <1>2

\* Deposits and votes are counted truly in both of their places, and the lists have as
\* many rows as they say while no operator has two rows.
THEOREM TotalsAreTrue == Spec => []TotalsMatch
  <1>1. IndInv => TotalsMatch
    <2> SUFFICES ASSUME IndInv PROVE TotalsMatch
      OBVIOUS
    <2>1. TypeOK /\ EventsOfProposals /\ OperatorsAreKnown /\ DepositsCounted /\ VotesCounted
      BY DEF IndInv
    <2>2. ASSUME NEW id \in DOMAIN proposals
          PROVE  /\ FindBy(depositorTotals, id) = Cardinality(DepositsOf(id))
                 /\ proposals[id].deposit = Cardinality(DepositsOf(id))
                 /\ FindBy(voteTotals, id) = Cardinality(VotersOf(id))
                 /\ proposals[id].vote = Cardinality(VotersOf(id))
      <3>1. id \in Nat
        BY <2>1, IndexesAreFinite
      <3> QED
        BY <2>1, <3>1 DEF DepositsCounted, VotesCounted
    <2>3. ASSUME OnceAValidator, NEW id \in DOMAIN proposals
          PROVE  Cardinality(DepositorsList(id).rows) = DepositorsList(id).total
      <3> DEFINE S == DepositsOf(id)
                 joined == [i \in S |-> Copies(depositors[i], depositors[i].account)]
      <3>1. ASSUME NEW i \in S PROVE \E c : joined[i] = {c}
        <4>1. PICK row : row = depositors[i]
          OBVIOUS
        <4>2. PICK account : account = row.account
          OBVIOUS
        <4>3. row.operator \in BOOLEAN /\ (row.operator => IsValidator(account))
          <5>1. i \in DOMAIN depositors /\ row \in DepositorRow
            BY <2>1, <4>1 DEF TypeOK, DepositsOf
          <5> QED
            BY <2>1, <4>1, <4>2, <5>1 DEF OperatorsAreKnown, DepositorRow
        <4>4. \E c : Copies(row, account) = {c}
          BY <2>3, <4>3, CopiesAreSingle, Zenon
        <4> QED
          BY <4>1, <4>2, <4>4
      <3>2. DepositorsList(id).rows = Join(S, joined)
        BY DEF DepositorsList, Join
      <3>3. IsFiniteSet(S)
        BY <2>1, IndexesAreFinite
      <3> HIDE DEF joined
      <3>4. Cardinality(DepositorsList(id).rows) = Cardinality(S)
        BY <3>1, <3>2, <3>3, JoinedOnce
      <3> QED
        BY <2>2, <3>4 DEF DepositorsList
    <2>4. ASSUME OnceAValidator, NEW id \in DOMAIN proposals
          PROVE  Cardinality(VotesList(id).rows) = VotesList(id).total
      <3> DEFINE S == {k \in DOMAIN votes : k[1] = id}
                 joined == [k \in S |-> Copies(votes[k], k[2])]
                 f == [voter \in VotersOf(id) |-> <<id, voter>>]
      <3>1. ASSUME NEW k \in S PROVE \E c : joined[k] = {c}
        <4>1. PICK row, account : row = votes[k] /\ account = k[2]
          OBVIOUS
        <4>2. row.operator \in BOOLEAN /\ (row.operator => IsValidator(account))
          BY <2>1, <4>1 DEF OperatorsAreKnown
        <4>3. \E c : Copies(row, account) = {c}
          BY <2>4, <4>2, CopiesAreSingle, Zenon
        <4> QED
          BY <4>1, <4>3
      <3>2. VotesList(id).rows = Join(S, joined)
        BY DEF VotesList, Join
      <3>3. f \in Bijection(VotersOf(id), S)
        <4>1. \A voter : voter \in VotersOf(id) <=> <<id, voter>> \in S
          BY <2>1 DEF EventsOfProposals, VotersOf
        <4>2. \A k \in S : k = <<id, k[2]>>
          BY <2>1 DEF TypeOK
        <4>3. f \in [VotersOf(id) -> S]
          BY <4>1
        <4>4. \A v, w \in VotersOf(id) : f[v] = f[w] => v = w
          OBVIOUS
        <4>5. \A k \in S : \E v \in VotersOf(id) : f[v] = k
          BY <4>1, <4>2
        <4> QED
          BY <4>3, <4>4, <4>5 DEF Bijection, Injection, Surjection, IsInjective
      <3>4. IsFiniteSet(VotersOf(id))
        <4>1. id \in Nat
          BY <2>1, IndexesAreFinite
        <4> QED
          BY <2>1, <4>1 DEF VotesCounted
      <3>5. IsFiniteSet(S) /\ Cardinality(S) = Cardinality(VotersOf(id))
        BY <3>3, <3>4, FS_Bijection DEF ExistsBijection
      <3> HIDE DEF joined, S
      <3>6. Cardinality(VotesList(id).rows) = Cardinality(S)
        BY <3>1, <3>2, <3>5, JoinedOnce
      <3>7. VotesList(id).total = FindBy(voteTotals, id)
        BY DEF VotesList
      <3> QED
        BY <2>2, <3>5, <3>6, <3>7
    <2>5. ASSUME OnceAValidator
          PROVE  ProposalsList(Statuses).total = Len(proposals)
      <3> DEFINE S == DOMAIN proposals
                 joined == [id \in S |-> Copies(proposals[id], proposals[id].proposer)]
      <3>1. \A id \in S : proposals[id] \in ProposalRow
        BY <2>1 DEF TypeOK
      <3>2. ASSUME NEW id \in S PROVE \E c : joined[id] = {c}
        <4>1. PICK row : row = proposals[id]
          OBVIOUS
        <4>2. PICK account : account = row.proposer
          OBVIOUS
        <4>3. row.operator \in BOOLEAN /\ (row.operator => IsValidator(account))
          BY <2>1, <3>1, <4>1, <4>2 DEF OperatorsAreKnown, ProposalRow
        <4>4. \E c : Copies(row, account) = {c}
          BY <2>5, <4>3, CopiesAreSingle, Zenon
        <4> QED
          BY <4>1, <4>2, <4>4
      <3>3. S = {id \in DOMAIN proposals : proposals[id].status \in Statuses}
        BY <3>1 DEF ProposalRow
      <3>4. ProposalsList(Statuses).total = Cardinality(Join(S, joined))
        BY <3>3 DEF ProposalsList, Join
      <3>5. IsFiniteSet(S) /\ Cardinality(S) = Len(proposals)
        BY <2>1, IndexesAreFinite
      <3> HIDE DEF joined, S
      <3>6. Cardinality(Join(S, joined)) = Cardinality(S)
        BY <3>2, <3>5, JoinedOnce
      <3> QED
        BY <3>4, <3>5, <3>6
    <2> QED
      BY <2>2, <2>3, <2>4, <2>5 DEF TotalsMatch
  <1> QED
    BY <1>1, Invariance, PTL

\* The newest vote of an account is always in the record of its proposal.
THEOREM LastVotesAreRecorded == Spec => []LastVoteRecorded
  <1>1. IndInv => LastVoteRecorded
    BY DEF IndInv
  <1> QED
    BY <1>1, Invariance, PTL

=============================================================================
