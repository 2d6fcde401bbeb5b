------------------------- MODULE BridgeMatcherProofs -------------------------
(***************************************************************************)
(* Proofs about BridgeMatcher, for any number of transfers and of failures *)
(* and crashes, whatever order the rows of the two chains arrive in.       *)
(***************************************************************************)
EXTENDS BridgeMatcher, FiniteSetTheorems, SequenceTheorems, TLAPS

-----------------------------------------------------------------------------
(* The inductive invariant *)

Directions == {"Outgoing", "Incoming", "Response"}

PendingRow == [transfer : Transfers, direction : Directions,
               status : Statuses, processed : BOOLEAN]

ActivityRow == [status : Statuses, dest : BOOLEAN]

TypeOK ==
    /\ source \in [Transfers -> Chains]
    /\ fate \in [Transfers -> Fates]
    /\ indexed \in [Transfers -> [Chains -> Nat]]
    /\ pending \in [Chains -> Seq(PendingRow)]
    /\ activities \in [Transfers -> Seq(ActivityRow)]
    /\ phase \in 0..Len(Phases)
    /\ pc \in {"row", "mark", "commit"}
    /\ writes \in BOOLEAN
    /\ tx \in Seq(ActivityRow)
    /\ \A r \in lost : r[1] \in Chains /\ r[2] \in DOMAIN pending[r[1]]

\* The status a transfer is sent with, and the one the later rows give it.
Initial(t) == IF fate[t] = "failed" THEN "FailedOnChain" ELSE "Pending"
Final(t) == Outcome(t).status

\* A row says what became of its transfer, and is in the table of the right chain.
RowIsTrue(r, c) ==
    \/ r.direction = "Outgoing" /\ c = source[r.transfer] /\ r.status = Initial(r.transfer)
    \/ /\ r.direction = "Response" /\ c = source[r.transfer] /\ r.status = Final(r.transfer)
       /\ fate[r.transfer] \in {"received", "rejected", "timeout"}
    \/ /\ r.direction = "Incoming" /\ c # source[r.transfer] /\ r.status = Final(r.transfer)
       /\ fate[r.transfer] \in {"received", "rejected"}

RowsAreTrue == \A c \in Chains : \A i \in DOMAIN pending[c] : RowIsTrue(pending[c][i], c)

\* Every event that the projection of a chain has handled has left its row.
RowsAreKept ==
    \A t \in Transfers, c \in Chains : \A k \in 1..indexed[t][c] :
        \E i \in DOMAIN pending[c] :
            /\ pending[c][i].transfer = t
            /\ pending[c][i].direction = RowsOf(t, c)[k].direction

\* The list being handled has rows of its table that are still to be marked, but for
\* the one that is about to be committed.
ListIsOpen ==
    /\ rows # {} => phase # 0 /\ rows \subseteq DOMAIN Table
    /\ pc # "row" => rows # {}
    /\ pc = "commit" => writes
    /\ \A id \in rows : Table[id].processed <=> pc = "commit" /\ id = CurrentRowId

\* What the transaction will write
Written == IF writes THEN tx ELSE activities[Current]

\* The processed rows of a transfer in one of the directions, in tables p
Seen(p, t, directions) ==
    \E c \in Chains : \E i \in DOMAIN p[c] :
        p[c][i].transfer = t /\ p[c][i].processed /\ p[c][i].direction \in directions

\* The rows that have made an activity
ProcessedOutgoing(p, t) ==
    {i \in DOMAIN p[source[t]] :
        /\ p[source[t]][i].transfer = t
        /\ p[source[t]][i].direction = "Outgoing"
        /\ p[source[t]][i].processed}

\* Every activity was made by a row of its own.
ActivitiesCounted ==
    /\ \A t \in Transfers : Len(activities[t]) <= Cardinality(ProcessedOutgoing(pending, t))
    /\ pc = "mark" => Len(Written) <= Cardinality(ProcessedOutgoing(MarkedPending, Current))
    /\ pc = "commit" => Len(tx) <= Cardinality(ProcessedOutgoing(pending, Current))

\* A list of activities that forgets nothing another one has
Extends(new, old) ==
    \A i \in DOMAIN old :
        /\ i \in DOMAIN new
        /\ old[i].dest => new[i].dest
        /\ old[i].status # "Pending" => new[i].status = old[i].status

KnownStatuses(list, t) == \A i \in DOMAIN list : list[i].status \in {"Pending", Final(t)}

NothingForgotten ==
    /\ \A t \in Transfers : KnownStatuses(activities[t], t)
    /\ pc # "row" => KnownStatuses(Written, Current) /\ Extends(Written, activities[Current])

\* A transfer that was recorded once and of which no write was lost
Sole(t) == \A i, j \in OutgoingRows(t) : i = j
Trusted(t) == Sole(t) /\ NothingLost(t)

\* The activity that the processed rows of a transfer in tables p add up to
Expected(p, t) ==
    IF ~Seen(p, t, {"Outgoing"}) THEN << >>
    ELSE << Activity(IF Seen(p, t, {"Incoming", "Response"}) THEN Final(t) ELSE Initial(t),
                     Seen(p, t, {"Incoming"})) >>

\* The outgoing row comes first, whatever came into the tables first.
Tells(list, p, t) ==
    /\ list = Expected(p, t)
    /\ Seen(p, t, {"Incoming", "Response"}) => Seen(p, t, {"Outgoing"})

ActivitiesTell ==
    \A t \in Transfers : Trusted(t) =>
        /\ Tells(IF pc = "commit" /\ Current = t THEN tx ELSE activities[t], pending, t)
        /\ pc = "mark" /\ Current = t => Tells(Written, MarkedPending, t)

IndInv ==
    /\ TypeOK /\ RowsAreTrue /\ RowsAreKept /\ ListIsOpen
    /\ ActivitiesCounted /\ NothingForgotten /\ ActivitiesTell

-----------------------------------------------------------------------------
(* The list being handled *)

\* Every list is one of a chain's table.
LEMMA PhasesHaveChains ==
    Len(Phases) = 4 /\ \A n \in 1..4 : Phases[n].chain \in Chains
  BY DEF Phases, Chains

\* The least of some numbers: the initial segments of the numbers are finite sets,
\* which are well founded by inclusion.
LEMMA LeastNumber ==
    ASSUME NEW S, S \subseteq Nat, S # {}
    PROVE  \E n \in S : \A m \in S : n <= m
  <1> DEFINE T == {1..n : n \in S}
             R == StrictSubsetOrdering(Nat)
             F == FiniteSubsetsOf(Nat)
  <1>1. T \subseteq F /\ T # {}
    <2>1. \A n \in S : IsFiniteSet(1..n) /\ (1..n) \subseteq Nat
      BY FS_Interval
    <2> QED
      BY <2>1 DEF FiniteSubsetsOf
  <1>2. IsWellFoundedOn(R, F)
    BY FS_StrictSubsetOrderingWellFounded
  <1>3. \E x \in T : \A y \in T : <<y, x>> \notin R
    <2> HIDE DEF R, T, F
    <2> QED
      BY <1>1, <1>2, WFMin
  <1>4. PICK n \in S : \A m \in S : <<1..m, 1..n>> \notin R
    BY <1>3
  <1>5. ASSUME NEW m \in S, m < n PROVE FALSE
    <2>1. (1..m) \subseteq (1..n) /\ n \in (1..n) /\ n \notin 1..m
      BY <1>5
    <2>2. <<1..m, 1..n>> \in R
      BY <2>1 DEF StrictSubsetOrdering
    <2> QED
      BY <2>2, <1>4
  <1> QED
    BY <1>5

\* The row being handled is one of its table.
LEMMA CurrentRowIsListed ==
    ASSUME TypeOK, ListIsOpen, rows # {}
    PROVE  /\ Phases[phase].chain \in Chains
           /\ CurrentRowId \in rows
           /\ CurrentRowId \in DOMAIN pending[Phases[phase].chain]
           /\ CurrentRow \in PendingRow
           /\ Current \in Transfers
  <1>1. phase \in 1..4 /\ Phases[phase].chain \in Chains
    BY PhasesHaveChains DEF TypeOK, ListIsOpen
  <1>2. Table \in Seq(PendingRow) /\ rows \subseteq DOMAIN Table
    BY <1>1 DEF TypeOK, ListIsOpen, Table
  <1>3. rows \subseteq Nat
    BY <1>2
  <1>4. CurrentRowId \in rows
    BY <1>3, LeastNumber DEF CurrentRowId
  <1>5. CurrentRow \in PendingRow
    BY <1>2, <1>4 DEF CurrentRow
  <1> QED
    BY <1>1, <1>2, <1>4, <1>5 DEF Table, Current, PendingRow

-----------------------------------------------------------------------------
(* The tables of pending rows *)

\* The rows that a transfer has on a chain.
LEMMA RowsOfTransfer ==
    ASSUME TypeOK, NEW t \in Transfers, NEW c \in Chains
    PROVE  /\ Len(RowsOf(t, c)) \in 0..2
           /\ \A k \in 1..Len(RowsOf(t, c)) :
                 /\ RowsOf(t, c)[k] \in PendingRow
                 /\ RowsOf(t, c)[k].transfer = t
                 /\ ~RowsOf(t, c)[k].processed
                 /\ RowIsTrue(RowsOf(t, c)[k], c)
  <1>1. source[t] \in Chains /\ fate[t] \in Fates
    BY DEF TypeOK
  <1> DEFINE R(direction, status) == Row(t, direction, status)
  <1>2. \A direction \in Directions, status \in Statuses :
           /\ R(direction, status) \in PendingRow
           /\ R(direction, status).transfer = t
           /\ R(direction, status).direction = direction
           /\ R(direction, status).status = status
           /\ ~R(direction, status).processed
    BY DEF Row, PendingRow
  <1>3. "Outgoing" \in Directions /\ "Incoming" \in Directions /\ "Response" \in Directions
    BY DEF Directions
  <1>4. /\ "Pending" \in Statuses /\ "FailedOnChain" \in Statuses
        /\ "CounterpartyConfirmed" \in Statuses /\ "CounterpartyRejected" \in Statuses
    BY DEF Statuses
  <1>5. /\ fate[t] = "failed" => Final(t) = "FailedOnChain"
        /\ fate[t] = "received" => Final(t) = "CounterpartyConfirmed"
        /\ fate[t] = "rejected" => Final(t) = "CounterpartyRejected"
        /\ fate[t] = "timeout" => Final(t) = "CounterpartyRejected"
    BY DEF Final, Outcome, Activity
  <1>6. CASE c = source[t]
    <2>1. CASE fate[t] = "failed"
      <3>1. RowsOf(t, c) = << R("Outgoing", "FailedOnChain") >>
        BY <1>6, <2>1 DEF RowsOf, SourceRows
      <3> HIDE DEF R
      <3> QED
        BY <1>2, <1>3, <1>4, <1>6, <2>1, <3>1 DEF RowIsTrue, Initial
    <2>4. CASE fate[t] = "closed"
      <3>1. RowsOf(t, c) = << R("Outgoing", "Pending") >>
        BY <1>6, <2>4 DEF RowsOf, SourceRows
      <3> HIDE DEF R
      <3> QED
        BY <1>2, <1>3, <1>4, <1>6, <2>4, <3>1 DEF RowIsTrue, Initial
    <2>2. CASE fate[t] = "received"
      <3>1. RowsOf(t, c) = << R("Outgoing", "Pending"), R("Response", "CounterpartyConfirmed") >>
        BY <1>6, <2>2 DEF RowsOf, SourceRows
      <3> HIDE DEF R
      <3> QED
        BY <1>2, <1>3, <1>4, <1>5, <1>6, <2>2, <3>1 DEF RowIsTrue, Initial
    <2>3. CASE fate[t] \in {"rejected", "timeout"}
      <3>1. RowsOf(t, c) = << R("Outgoing", "Pending"), R("Response", "CounterpartyRejected") >>
        BY <1>6, <2>3 DEF RowsOf, SourceRows
      <3> HIDE DEF R
      <3> QED
        BY <1>2, <1>3, <1>4, <1>5, <1>6, <2>3, <3>1 DEF RowIsTrue, Initial
    <2> QED
      BY <1>1, <2>1, <2>2, <2>3, <2>4 DEF Fates
  <1>7. CASE c # source[t]
    <2>1. CASE fate[t] \in {"failed", "timeout", "closed"}
      BY <1>7, <2>1 DEF RowsOf, DestinationRows
    <2>2. CASE fate[t] = "received"
      <3>1. RowsOf(t, c) = << R("Incoming", "CounterpartyConfirmed") >>
        BY <1>7, <2>2 DEF RowsOf, DestinationRows
      <3> HIDE DEF R
      <3> QED
        BY <1>2, <1>3, <1>4, <1>5, <1>7, <2>2, <3>1 DEF RowIsTrue
    <2>3. CASE fate[t] = "rejected"
      <3>1. RowsOf(t, c) = << R("Incoming", "CounterpartyRejected") >>
        BY <1>7, <2>3 DEF RowsOf, DestinationRows
      <3> HIDE DEF R
      <3> QED
        BY <1>2, <1>3, <1>4, <1>5, <1>7, <2>3, <3>1 DEF RowIsTrue
    <2> QED
      BY <1>1, <2>1, <2>2, <2>3 DEF Fates
  <1> QED
    BY <1>6, <1>7

\* Tables p with one more row on chain c, which is not processed.
LEMMA AppendRow ==
    ASSUME TypeOK, NEW p \in [Chains -> Seq(PendingRow)], NEW c \in Chains,
           NEW r \in PendingRow, ~r.processed,
           NEW q, q = [p EXCEPT ![c] = Append(@, r)]
    PROVE  /\ q \in [Chains -> Seq(PendingRow)]
           /\ \A d \in Chains : \A i \in DOMAIN p[d] : i \in DOMAIN q[d] /\ q[d][i] = p[d][i]
           /\ \A d \in Chains : \A i \in DOMAIN q[d] :
                 i \in DOMAIN p[d] \/ (d = c /\ q[d][i] = r /\ i = Len(p[c]) + 1)
           /\ Len(p[c]) + 1 \in DOMAIN q[c] /\ q[c][Len(p[c]) + 1] = r
  OBVIOUS

\* Rows that are not processed make no activity and tell nothing.
LEMMA UnprocessedRowsAreSilent ==
    ASSUME TypeOK, NEW p, NEW q,
           \A d \in Chains : \A i \in DOMAIN p[d] : i \in DOMAIN q[d] /\ q[d][i] = p[d][i],
           \A d \in Chains : \A i \in DOMAIN q[d] : i \in DOMAIN p[d] \/ ~q[d][i].processed
    PROVE  /\ \A t, directions : Seen(q, t, directions) = Seen(p, t, directions)
           /\ \A t \in Transfers : ProcessedOutgoing(q, t) = ProcessedOutgoing(p, t)
  <1>1. \A t, directions : Seen(q, t, directions) = Seen(p, t, directions)
    BY DEF Seen
  <1>2. \A t \in Transfers : ProcessedOutgoing(q, t) = ProcessedOutgoing(p, t)
    <2> SUFFICES ASSUME NEW t \in Transfers
                 PROVE  ProcessedOutgoing(q, t) = ProcessedOutgoing(p, t)
      OBVIOUS
    <2>1. source[t] \in Chains
      BY DEF TypeOK
    <2> QED
      BY <2>1 DEF ProcessedOutgoing
  <1> QED
    BY <1>1, <1>2

\* Tables p in which row i of chain c is marked.
LEMMA MarkRow ==
    ASSUME NEW p \in [Chains -> Seq(PendingRow)], NEW c \in Chains, NEW i \in DOMAIN p[c],
           NEW q, q = [p EXCEPT ![c][i].processed = TRUE]
    PROVE  /\ q \in [Chains -> Seq(PendingRow)]
           /\ \A d \in Chains : DOMAIN q[d] = DOMAIN p[d]
           /\ \A d \in Chains : \A j \in DOMAIN p[d] :
                 /\ q[d][j].transfer = p[d][j].transfer
                 /\ q[d][j].direction = p[d][j].direction
                 /\ q[d][j].status = p[d][j].status
                 /\ q[d][j].processed <=> p[d][j].processed \/ (d = c /\ j = i)
                 /\ ~(d = c /\ j = i) => q[d][j] = p[d][j]
  <1> DEFINE r == [p[c][i] EXCEPT !.processed = TRUE]
  <1>1. p[c] \in Seq(PendingRow) /\ p[c][i] \in PendingRow
    OBVIOUS
  <1>2. /\ r \in PendingRow /\ r.transfer = p[c][i].transfer /\ r.direction = p[c][i].direction
        /\ r.status = p[c][i].status /\ r.processed
    BY <1>1 DEF PendingRow
  <1>3. q = [p EXCEPT ![c] = [p[c] EXCEPT ![i] = r]]
    OBVIOUS
  <1> HIDE DEF r
  <1>4. q[c] = [p[c] EXCEPT ![i] = r] /\ \A d \in Chains : d # c => q[d] = p[d]
    BY <1>3
  <1>5. q[c] \in Seq(PendingRow) /\ DOMAIN q[c] = DOMAIN p[c]
    <2>1. i \in 1..Len(p[c])
      BY <1>1
    <2>2. [p[c] EXCEPT ![i] = r] \in Seq(PendingRow)
      BY <1>1, <1>2, <2>1, ExceptSeq
    <2> QED
      BY <1>4, <2>2
  <1>6. q \in [Chains -> Seq(PendingRow)]
    BY <1>3, <1>4, <1>5
  <1> QED
    BY <1>1, <1>2, <1>4, <1>5, <1>6

-----------------------------------------------------------------------------
(* Rows that the projections write *)

\* The next row of a transfer that a projection handles, or one it handles again.
NewRow(c, r) ==
    /\ pending' = [pending EXCEPT ![c] = Append(@, r)]
    /\ \/ UNCHANGED indexed
       \/ \E t \in Transfers :
             /\ indexed' = [indexed EXCEPT ![t][c] = @ + 1]
             /\ indexed[t][c] < Len(RowsOf(t, c))
             /\ r = RowsOf(t, c)[indexed[t][c] + 1]
    /\ UNCHANGED <<source, fate, activities, matcherVars, lost>>

\* The tables keep their rows, with or without the mark of the row being handled.
LEMMA NewRowKeepsTables ==
    ASSUME IndInv, NEW c \in Chains, NEW r \in PendingRow, ~r.processed, NewRow(c, r)
    PROVE  /\ pending' \in [Chains -> Seq(PendingRow)]
           /\ \A d \in Chains : \A i \in DOMAIN pending[d] :
                 i \in DOMAIN pending'[d] /\ pending'[d][i] = pending[d][i]
           /\ \A d \in Chains : \A i \in DOMAIN pending'[d] :
                 i \in DOMAIN pending[d] \/ (d = c /\ pending'[d][i] = r)
           /\ \E i \in DOMAIN pending'[c] : pending'[c][i] = r
           /\ \A t, directions : Seen(pending, t, directions)' = Seen(pending, t, directions)
           /\ \A t \in Transfers :
                 ProcessedOutgoing(pending, t)' = ProcessedOutgoing(pending, t)
           /\ rows # {} =>
                 /\ Current' = Current
                 /\ Table'[CurrentRowId] = CurrentRow
                 /\ \A t, directions :
                       Seen(MarkedPending, t, directions)' = Seen(MarkedPending, t, directions)
                 /\ \A t \in Transfers :
                       ProcessedOutgoing(MarkedPending, t)' = ProcessedOutgoing(MarkedPending, t)
  <1> USE DEF IndInv
  <1>1. /\ pending' \in [Chains -> Seq(PendingRow)]
        /\ \A d \in Chains : \A i \in DOMAIN pending[d] :
              i \in DOMAIN pending'[d] /\ pending'[d][i] = pending[d][i]
        /\ \A d \in Chains : \A i \in DOMAIN pending'[d] :
              i \in DOMAIN pending[d] \/ (d = c /\ pending'[d][i] = r)
        /\ \E i \in DOMAIN pending'[c] : pending'[c][i] = r
    <2>1. pending \in [Chains -> Seq(PendingRow)] /\ pending' = [pending EXCEPT ![c] = Append(@, r)]
      BY DEF TypeOK, NewRow
    <2> QED
      BY <2>1, AppendRow
  <1>2. source' = source /\ rows' = rows /\ phase' = phase
    BY DEF NewRow, matcherVars
  <1>3. /\ \A t, directions : Seen(pending', t, directions) = Seen(pending, t, directions)
        /\ \A t \in Transfers : ProcessedOutgoing(pending', t) = ProcessedOutgoing(pending, t)
    <2>1. TypeOK
      OBVIOUS
    <2>2. \A d \in Chains : \A i \in DOMAIN pending'[d] :
             i \in DOMAIN pending[d] \/ ~pending'[d][i].processed
      BY <1>1
    <2> HIDE DEF IndInv
    <2> QED
      BY <1>1, <2>1, <2>2, UnprocessedRowsAreSilent
  <1>4. ASSUME rows # {}
        PROVE  /\ Current' = Current
               /\ Table'[CurrentRowId] = CurrentRow
               /\ \A t, directions :
                     Seen(MarkedPending', t, directions) = Seen(MarkedPending, t, directions)
               /\ \A t \in Transfers :
                     ProcessedOutgoing(MarkedPending', t) = ProcessedOutgoing(MarkedPending, t)
    <2> DEFINE C == Phases[phase].chain
               id == CurrentRowId
    <2>1. C \in Chains /\ id \in DOMAIN pending[C] /\ id \in DOMAIN pending'[C]
      BY <1>1, <1>4, CurrentRowIsListed
    <2>2. CurrentRowId' = id
      BY <1>2 DEF CurrentRowId
    <2>3. Current' = Current /\ Table'[id] = CurrentRow /\ CurrentRow = pending[C][id]
      BY <1>1, <1>2, <2>1, <2>2 DEF Current, CurrentRow, Table
    <2>4. /\ MarkedPending = [pending EXCEPT ![C][id].processed = TRUE]
          /\ MarkedPending' = [pending' EXCEPT ![C][id].processed = TRUE]
      BY <1>2, <2>2 DEF MarkedPending
    <2>5. /\ \A d \in Chains : DOMAIN MarkedPending[d] = DOMAIN pending[d]
          /\ \A d \in Chains : \A j \in DOMAIN pending[d] :
                ~(d = C /\ j = id) => MarkedPending[d][j] = pending[d][j]
      <3> HIDE DEF C, id
      <3> QED
        BY <2>1, <2>4, MarkRow DEF TypeOK
    <2>6. /\ \A d \in Chains : DOMAIN MarkedPending'[d] = DOMAIN pending'[d]
          /\ \A d \in Chains : \A j \in DOMAIN pending'[d] :
                ~(d = C /\ j = id) => MarkedPending'[d][j] = pending'[d][j]
      <3> HIDE DEF C, id
      <3> QED
        BY <1>1, <2>1, <2>4, MarkRow
    <2>7. MarkedPending'[C][id] = MarkedPending[C][id]
      <3> HIDE DEF C, id
      <3>1. MarkedPending[C][id] = [pending[C][id] EXCEPT !.processed = TRUE]
        BY <2>1, <2>4 DEF TypeOK
      <3>2. MarkedPending'[C][id] = [pending'[C][id] EXCEPT !.processed = TRUE]
        BY <1>1, <2>1, <2>4
      <3> QED
        BY <1>1, <2>1, <3>1, <3>2
    <2>8. \A d \in Chains : \A i \in DOMAIN MarkedPending[d] :
             i \in DOMAIN MarkedPending'[d] /\ MarkedPending'[d][i] = MarkedPending[d][i]
      <3> HIDE DEF C, id
      <3> QED
        BY <1>1, <2>5, <2>6, <2>7
    <2>9. \A d \in Chains : \A i \in DOMAIN MarkedPending'[d] :
             i \in DOMAIN MarkedPending[d] \/ ~MarkedPending'[d][i].processed
      <3> HIDE DEF C, id
      <3> QED
        BY <1>1, <2>1, <2>5, <2>6
    <2> QED
      BY <2>3, <2>8, <2>9, UnprocessedRowsAreSilent
  <1>5. /\ \A t, directions : Seen(pending, t, directions)' = Seen(pending', t, directions)
        /\ \A t, directions : Seen(MarkedPending, t, directions)' = Seen(MarkedPending', t, directions)
        /\ \A t : ProcessedOutgoing(pending, t)' = ProcessedOutgoing(pending', t)
        /\ \A t : ProcessedOutgoing(MarkedPending, t)' = ProcessedOutgoing(MarkedPending', t)
    BY <1>2 DEF Seen, ProcessedOutgoing
  <1> QED
    BY <1>1, <1>3, <1>4, <1>5

\* A row that a projection writes disturbs nothing of what the matcher relies on.
LEMMA NewRowStep ==
    ASSUME IndInv, NEW c \in Chains, NEW r \in PendingRow, ~r.processed, RowIsTrue(r, c),
           NewRow(c, r)
    PROVE  IndInv'
  <1>1. /\ pending' \in [Chains -> Seq(PendingRow)]
        /\ \A d \in Chains : \A i \in DOMAIN pending[d] :
              i \in DOMAIN pending'[d] /\ pending'[d][i] = pending[d][i]
        /\ \A d \in Chains : \A i \in DOMAIN pending'[d] :
              i \in DOMAIN pending[d] \/ (d = c /\ pending'[d][i] = r)
        /\ \E i \in DOMAIN pending'[c] : pending'[c][i] = r
    BY NewRowKeepsTables
  <1>2. /\ \A t, directions : Seen(pending, t, directions)' = Seen(pending, t, directions)
        /\ \A t \in Transfers : ProcessedOutgoing(pending, t)' = ProcessedOutgoing(pending, t)
    BY NewRowKeepsTables
  <1>3. rows # {} =>
           /\ Current' = Current
           /\ Table'[CurrentRowId] = CurrentRow
           /\ \A t, directions :
                 Seen(MarkedPending, t, directions)' = Seen(MarkedPending, t, directions)
           /\ \A t \in Transfers :
                 ProcessedOutgoing(MarkedPending, t)' = ProcessedOutgoing(MarkedPending, t)
           /\ Current \in Transfers
    BY NewRowKeepsTables, CurrentRowIsListed DEF IndInv
  <1>4. /\ source' = source /\ fate' = fate /\ activities' = activities /\ lost' = lost
        /\ phase' = phase /\ rows' = rows /\ pc' = pc /\ tx' = tx /\ writes' = writes
        /\ CurrentRowId' = CurrentRowId
    BY DEF NewRow, matcherVars, CurrentRowId
  <1>5. /\ \A t : Initial(t)' = Initial(t) /\ Final(t)' = Final(t)
        /\ \A t, d : RowsOf(t, d)' = RowsOf(t, d)
        /\ \A row, d : RowIsTrue(row, d)' = RowIsTrue(row, d)
    BY <1>4 DEF Initial, Final, Outcome, RowsOf, SourceRows, DestinationRows, RowIsTrue
  <1>0. /\ indexed' \in [Transfers -> [Chains -> Nat]]
        /\ \A t \in Transfers, d \in Chains :
              \/ indexed'[t][d] = indexed[t][d]
              \/ /\ d = c /\ indexed'[t][d] = indexed[t][d] + 1
                 /\ indexed[t][d] < Len(RowsOf(t, d))
                 /\ r = RowsOf(t, d)[indexed[t][d] + 1]
    <2>1. indexed \in [Transfers -> [Chains -> Nat]]
      BY DEF IndInv, TypeOK
    <2>2. CASE UNCHANGED indexed
      BY <2>1, <2>2
    <2>3. ASSUME NEW t \in Transfers, indexed' = [indexed EXCEPT ![t][c] = @ + 1],
                 indexed[t][c] < Len(RowsOf(t, c)), r = RowsOf(t, c)[indexed[t][c] + 1]
          PROVE  /\ indexed' \in [Transfers -> [Chains -> Nat]]
                 /\ \A u \in Transfers, d \in Chains :
                       \/ indexed'[u][d] = indexed[u][d]
                       \/ /\ d = c /\ indexed'[u][d] = indexed[u][d] + 1
                          /\ indexed[u][d] < Len(RowsOf(u, d))
                          /\ r = RowsOf(u, d)[indexed[u][d] + 1]
      <3>1. indexed[t] \in [Chains -> Nat] /\ indexed[t][c] + 1 \in Nat
        BY <2>1
      <3>2. indexed' = [indexed EXCEPT ![t] = [indexed[t] EXCEPT ![c] = indexed[t][c] + 1]]
        BY <2>3
      <3> QED
        BY <2>1, <2>3, <3>1, <3>2
    <2> QED
      BY <2>2, <2>3 DEF NewRow
  <1>6. TypeOK'
    BY <1>0, <1>1, <1>4 DEF IndInv, TypeOK
  <1>7. RowsAreTrue'
    BY <1>1, <1>5 DEF IndInv, RowsAreTrue
  <1>8. RowsAreKept'
    <2> SUFFICES ASSUME NEW t \in Transfers, NEW d \in Chains, NEW k \in 1..indexed'[t][d]
                 PROVE  \E i \in DOMAIN pending'[d] :
                           /\ pending'[d][i].transfer = t
                           /\ pending'[d][i].direction = RowsOf(t, d)[k].direction
      BY <1>5 DEF RowsAreKept
    <2>1. CASE k \in 1..indexed[t][d]
      BY <1>1, <2>1 DEF IndInv, RowsAreKept
    <2>2. CASE k \notin 1..indexed[t][d]
      <3>1. d = c /\ indexed[t][c] < Len(RowsOf(t, c)) /\ k = indexed[t][c] + 1 /\ r = RowsOf(t, c)[k]
        BY <1>0, <2>2 DEF IndInv, TypeOK
      <3>2. r.transfer = t
        BY <3>1, RowsOfTransfer DEF IndInv, TypeOK
      <3> QED
        BY <1>1, <3>1, <3>2
    <2> QED
      BY <2>1, <2>2
  <1>9. ListIsOpen'
    <2> SUFFICES ASSUME rows # {} PROVE ListIsOpen'
      BY <1>4 DEF IndInv, ListIsOpen
    <2>1. Phases[phase].chain \in Chains /\ Table = pending[Phases[phase].chain]
          /\ Table' = pending'[Phases[phase].chain]
      BY <1>4, CurrentRowIsListed DEF IndInv, Table
    <2> QED
      BY <1>1, <1>4, <2>1 DEF IndInv, ListIsOpen
  <1>10. ActivitiesCounted'
    BY <1>2, <1>3, <1>4 DEF IndInv, ActivitiesCounted, Written, ListIsOpen
  <1>11. NothingForgotten'
    BY <1>3, <1>4, <1>5 DEF IndInv, NothingForgotten, KnownStatuses, Extends, Written, ListIsOpen
  <1>12. ActivitiesTell'
    <2> SUFFICES ASSUME NEW t \in Transfers, Trusted(t)'
                 PROVE  /\ Tells(IF pc = "commit" /\ Current = t THEN tx ELSE activities[t], pending, t)'
                        /\ (pc = "mark" /\ Current = t => Tells(Written, MarkedPending, t))'
      BY DEF ActivitiesTell
    <2>1. Sole(t)
      <3>1. source[t] \in Chains
        BY DEF IndInv, TypeOK
      <3>2. OutgoingRows(t) \subseteq OutgoingRows(t)'
        BY <1>1, <1>4, <3>1 DEF OutgoingRows
      <3> QED
        BY <3>2 DEF Trusted, Sole
    <2>2. NothingLost(t)
      BY <1>1, <1>4 DEF Trusted, NothingLost, IndInv, TypeOK
    <2>3. \A list : Tells(list, pending, t)' <=> Tells(list, pending, t)
      BY <1>2, <1>5 DEF Tells, Expected
    <2>4. rows # {} => \A list : Tells(list, MarkedPending, t)' <=> Tells(list, MarkedPending, t)
      BY <1>3, <1>5 DEF Tells, Expected
    <2>5. pc # "row" => rows # {} /\ Current' = Current /\ Written' = Written
      BY <1>3, <1>4 DEF IndInv, ListIsOpen, Written
    <2> QED
      BY <1>4, <2>1, <2>2, <2>3, <2>4, <2>5 DEF IndInv, ActivitiesTell, Trusted
  <1> QED
    BY <1>6, <1>7, <1>8, <1>9, <1>10, <1>11, <1>12 DEF IndInv

LEMMA HandleEventsStep ==
    ASSUME IndInv, NEW c \in Chains, HandleEvents(c)
    PROVE  IndInv'
  <1>1. PICK t \in Transfers :
           /\ indexed[t][c] < Len(RowsOf(t, c))
           /\ pending' = [pending EXCEPT ![c] = Append(@, RowsOf(t, c)[indexed[t][c] + 1])]
           /\ indexed' = [indexed EXCEPT ![t][c] = @ + 1]
           /\ UNCHANGED <<source, fate, activities, matcherVars, lost, faults>>
    BY DEF HandleEvents
  <1>2. indexed[t][c] + 1 \in 1..Len(RowsOf(t, c))
    BY <1>1, RowsOfTransfer DEF IndInv, TypeOK
  <1>3. NewRow(c, RowsOf(t, c)[indexed[t][c] + 1])
    BY <1>1 DEF NewRow
  <1> QED
    BY <1>2, <1>3, RowsOfTransfer, NewRowStep DEF IndInv

LEMMA HandleEventsAgainStep ==
    ASSUME IndInv, NEW c \in Chains, HandleEventsAgain(c)
    PROVE  IndInv'
  <1> DEFINE last == pending[c][Len(pending[c])]
             r == [last EXCEPT !.processed = FALSE]
  <1>1. pending[c] \in Seq(PendingRow) /\ pending[c] # << >>
    BY DEF IndInv, TypeOK, HandleEventsAgain
  <1>2. Len(pending[c]) \in DOMAIN pending[c] /\ last \in PendingRow
    BY <1>1
  <1>3. /\ r \in PendingRow /\ ~r.processed
        /\ r.transfer = last.transfer /\ r.direction = last.direction /\ r.status = last.status
    BY <1>2 DEF PendingRow
  <1>4. RowIsTrue(last, c)
    BY <1>2 DEF IndInv, RowsAreTrue
  <1>5. NewRow(c, r)
    BY DEF HandleEventsAgain, NewRow, chainVars
  <1> HIDE DEF last, r
  <1>6. RowIsTrue(r, c)
    BY <1>3, <1>4 DEF RowIsTrue
  <1> QED
    BY <1>3, <1>5, <1>6, NewRowStep

-----------------------------------------------------------------------------
(* Rows that the matcher marks *)

\* The tables once the row being handled is marked.
LEMMA MarkedTables ==
    ASSUME IndInv, pc # "commit", rows # {}
    PROVE  /\ MarkedPending \in [Chains -> Seq(PendingRow)]
           /\ \A d \in Chains : DOMAIN MarkedPending[d] = DOMAIN pending[d]
           /\ \A d \in Chains : \A j \in DOMAIN pending[d] :
                 /\ MarkedPending[d][j].transfer = pending[d][j].transfer
                 /\ MarkedPending[d][j].direction = pending[d][j].direction
                 /\ MarkedPending[d][j].status = pending[d][j].status
                 /\ MarkedPending[d][j].processed <=>
                       \/ pending[d][j].processed
                       \/ d = Phases[phase].chain /\ j = CurrentRowId
           /\ ~CurrentRow.processed /\ RowIsTrue(CurrentRow, Phases[phase].chain)
  <1> DEFINE C == Phases[phase].chain
             id == CurrentRowId
  <1>1. C \in Chains /\ id \in rows /\ id \in DOMAIN pending[C] /\ CurrentRow = pending[C][id]
    BY CurrentRowIsListed DEF IndInv, CurrentRow, Table
  <1>2. MarkedPending = [pending EXCEPT ![C][id].processed = TRUE]
    BY DEF MarkedPending
  <1>3. ~CurrentRow.processed
    BY <1>1 DEF IndInv, ListIsOpen, Table
  <1>4. RowIsTrue(CurrentRow, C)
    BY <1>1 DEF IndInv, RowsAreTrue
  <1> HIDE DEF id, C
  <1>5. /\ MarkedPending \in [Chains -> Seq(PendingRow)]
        /\ \A d \in Chains : DOMAIN MarkedPending[d] = DOMAIN pending[d]
        /\ \A d \in Chains : \A j \in DOMAIN pending[d] :
              /\ MarkedPending[d][j].transfer = pending[d][j].transfer
              /\ MarkedPending[d][j].direction = pending[d][j].direction
              /\ MarkedPending[d][j].status = pending[d][j].status
              /\ MarkedPending[d][j].processed <=> pending[d][j].processed \/ (d = C /\ j = id)
    <2>1. pending \in [Chains -> Seq(PendingRow)]
      BY DEF IndInv, TypeOK
    <2>2. MarkedPending \in [Chains -> Seq(PendingRow)]
      BY <1>1, <1>2, <2>1, MarkRow
    <2>3. \A d \in Chains : DOMAIN MarkedPending[d] = DOMAIN pending[d]
      BY <1>1, <1>2, <2>1, MarkRow
    <2>4. ASSUME NEW d \in Chains, NEW j \in DOMAIN pending[d]
          PROVE  /\ MarkedPending[d][j].transfer = pending[d][j].transfer
                 /\ MarkedPending[d][j].direction = pending[d][j].direction
                 /\ MarkedPending[d][j].status = pending[d][j].status
                 /\ MarkedPending[d][j].processed <=> pending[d][j].processed \/ (d = C /\ j = id)
      BY <1>1, <1>2, <2>1, MarkRow
    <2> QED
      BY <2>2, <2>3, <2>4
  <1> QED
    BY <1>3, <1>4, <1>5 DEF C, id

\* Counted sets are finite.
LEMMA OutgoingIsFinite ==
    ASSUME TypeOK, NEW p \in [Chains -> Seq(PendingRow)], NEW t \in Transfers
    PROVE  /\ IsFiniteSet(ProcessedOutgoing(p, t))
           /\ Cardinality(ProcessedOutgoing(p, t)) \in Nat
  <1>1. source[t] \in Chains
    BY DEF TypeOK
  <1>2. DOMAIN p[source[t]] = 1..Len(p[source[t]]) /\ Len(p[source[t]]) \in Nat
    BY <1>1
  <1>3. IsFiniteSet(DOMAIN p[source[t]])
    BY <1>2, FS_Interval
  <1>4. ProcessedOutgoing(p, t) \in SUBSET DOMAIN p[source[t]]
    BY DEF ProcessedOutgoing
  <1> QED
    BY <1>3, <1>4, FS_Subset, FS_CardinalityType

\* What marking adds to the processed rows: the row being handled.
LEMMA MarkingAddsCurrentRow ==
    ASSUME IndInv, pc # "commit", rows # {}
    PROVE  /\ \A t, directions :
                 Seen(MarkedPending, t, directions) <=>
                    \/ Seen(pending, t, directions)
                    \/ t = Current /\ CurrentRow.direction \in directions
           /\ \A t \in Transfers :
                 Cardinality(ProcessedOutgoing(MarkedPending, t)) =
                    Cardinality(ProcessedOutgoing(pending, t))
                       + IF t = Current /\ CurrentRow.direction = "Outgoing" THEN 1 ELSE 0
  <1> DEFINE C == Phases[phase].chain
             id == CurrentRowId
  <1>1. /\ C \in Chains /\ id \in DOMAIN pending[C] /\ CurrentRow = pending[C][id]
        /\ Current = CurrentRow.transfer /\ Current \in Transfers
    BY CurrentRowIsListed DEF IndInv, CurrentRow, Current, Table
  <1>2. /\ MarkedPending \in [Chains -> Seq(PendingRow)]
        /\ \A d \in Chains : DOMAIN MarkedPending[d] = DOMAIN pending[d]
        /\ \A d \in Chains : \A j \in DOMAIN pending[d] :
              /\ MarkedPending[d][j].transfer = pending[d][j].transfer
              /\ MarkedPending[d][j].direction = pending[d][j].direction
              /\ MarkedPending[d][j].processed <=> pending[d][j].processed \/ (d = C /\ j = id)
        /\ ~CurrentRow.processed /\ RowIsTrue(CurrentRow, C)
    BY MarkedTables
  <1> HIDE DEF C, id
  <1>3. \A t, directions :
           Seen(MarkedPending, t, directions) <=>
              \/ Seen(pending, t, directions)
              \/ t = Current /\ CurrentRow.direction \in directions
    <2> SUFFICES ASSUME NEW t, NEW directions
                 PROVE  Seen(MarkedPending, t, directions) <=>
                           \/ Seen(pending, t, directions)
                           \/ t = Current /\ CurrentRow.direction \in directions
      OBVIOUS
    <2>1. ASSUME Seen(MarkedPending, t, directions), ~Seen(pending, t, directions)
          PROVE  t = Current /\ CurrentRow.direction \in directions
      <3>1. PICK d \in Chains : \E i \in DOMAIN MarkedPending[d] :
               /\ MarkedPending[d][i].transfer = t /\ MarkedPending[d][i].processed
               /\ MarkedPending[d][i].direction \in directions
        BY <2>1 DEF Seen
      <3>2. PICK i \in DOMAIN MarkedPending[d] :
               /\ MarkedPending[d][i].transfer = t /\ MarkedPending[d][i].processed
               /\ MarkedPending[d][i].direction \in directions
        BY <3>1
      <3>3. ~pending[d][i].processed
        BY <1>2, <2>1, <3>2 DEF Seen
      <3>4. d = C /\ i = id
        BY <1>2, <3>2, <3>3
      <3> QED
        BY <1>1, <1>2, <3>2, <3>4
    <2>2. Seen(pending, t, directions) => Seen(MarkedPending, t, directions)
      BY <1>2 DEF Seen
    <2>3. ASSUME t = Current, CurrentRow.direction \in directions
          PROVE  Seen(MarkedPending, t, directions)
      <3>1. /\ id \in DOMAIN MarkedPending[C] /\ MarkedPending[C][id].transfer = t
            /\ MarkedPending[C][id].processed
            /\ MarkedPending[C][id].direction \in directions
        BY <1>1, <1>2, <2>3
      <3> QED
        BY <1>1, <3>1 DEF Seen
    <2> QED
      BY <2>1, <2>2, <2>3
  <1>4. ASSUME NEW t \in Transfers
        PROVE  Cardinality(ProcessedOutgoing(MarkedPending, t)) =
                  Cardinality(ProcessedOutgoing(pending, t))
                     + IF t = Current /\ CurrentRow.direction = "Outgoing" THEN 1 ELSE 0
    <2>1. source[t] \in Chains
      BY DEF IndInv, TypeOK
    <2>2. CASE t = Current /\ CurrentRow.direction = "Outgoing"
      <3>1. C = source[t]
        BY <1>1, <1>2, <2>2 DEF RowIsTrue
      <3>2. /\ ProcessedOutgoing(MarkedPending, t) = ProcessedOutgoing(pending, t) \cup {id}
            /\ id \notin ProcessedOutgoing(pending, t)
        <4>1. /\ id \in DOMAIN MarkedPending[C] /\ MarkedPending[C][id].transfer = t
              /\ MarkedPending[C][id].processed /\ MarkedPending[C][id].direction = "Outgoing"
              /\ ~pending[C][id].processed
          BY <1>1, <1>2, <2>2
        <4>2. id \in ProcessedOutgoing(MarkedPending, t) /\ id \notin ProcessedOutgoing(pending, t)
          BY <3>1, <4>1 DEF ProcessedOutgoing
        <4>3. ASSUME NEW j \in DOMAIN pending[C], j # id
              PROVE  j \in ProcessedOutgoing(MarkedPending, t) <=> j \in ProcessedOutgoing(pending, t)
          BY <1>1, <1>2, <3>1, <4>3 DEF ProcessedOutgoing
        <4>4. /\ ProcessedOutgoing(MarkedPending, t) \subseteq DOMAIN pending[C]
              /\ ProcessedOutgoing(pending, t) \subseteq DOMAIN pending[C]
          BY <1>1, <1>2, <3>1 DEF ProcessedOutgoing
        <4> QED
          BY <4>2, <4>3, <4>4
      <3>3. IsFiniteSet(ProcessedOutgoing(pending, t))
        BY OutgoingIsFinite DEF IndInv, TypeOK
      <3> QED
        BY <2>2, <3>2, <3>3, FS_AddElement
    <2>3. CASE ~(t = Current /\ CurrentRow.direction = "Outgoing")
      <3>1. ProcessedOutgoing(MarkedPending, t) = ProcessedOutgoing(pending, t)
        BY <1>1, <1>2, <2>1, <2>3 DEF ProcessedOutgoing
      <3>2. Cardinality(ProcessedOutgoing(pending, t)) \in Nat
        BY OutgoingIsFinite DEF IndInv, TypeOK
      <3> QED
        BY <2>3, <3>1, <3>2
    <2> QED
      BY <2>2, <2>3
  <1> QED
    BY <1>3, <1>4

\* Marking a row of another transfer tells nothing about this one.
LEMMA MarkingTells ==
    ASSUME IndInv, pc # "commit", rows # {}, NEW t, t # Current
    PROVE  \A list : Tells(list, MarkedPending, t) <=> Tells(list, pending, t)
  <1>1. \A directions : Seen(MarkedPending, t, directions) <=> Seen(pending, t, directions)
    BY MarkingAddsCurrentRow
  <1>2. \A directions : Seen(MarkedPending, t, directions) = Seen(pending, t, directions)
    BY <1>1 DEF Seen
  <1>3. Expected(MarkedPending, t) = Expected(pending, t)
    BY <1>2 DEF Expected
  <1> QED
    BY <1>1, <1>3 DEF Tells

-----------------------------------------------------------------------------
(* Steps of the matcher that write nothing *)

\* What remains true of a matcher that goes on with another row, or is stopped before
\* it has marked one.
LEMMA NothingWrittenStep ==
    ASSUME IndInv, pc # "commit", pc' = "row", ListIsOpen',
           UNCHANGED <<chainVars, pending, activities, lost>>,
           phase' \in 0..Len(Phases), tx' \in Seq(ActivityRow), writes' \in BOOLEAN
    PROVE  IndInv'
  <1>1. /\ source' = source /\ fate' = fate /\ indexed' = indexed /\ pending' = pending
        /\ activities' = activities /\ lost' = lost
    BY DEF chainVars
  <1>2. TypeOK'
    BY <1>1 DEF IndInv, TypeOK
  <1> USE DEF IndInv
  <1>0. \A t : Initial(t)' = Initial(t) /\ Final(t)' = Final(t)
    BY <1>1 DEF Initial, Final, Outcome
  <1>3. RowsAreTrue'
    <2>1. \A row, c : RowIsTrue(row, c)' = RowIsTrue(row, c)
      BY <1>0, <1>1 DEF RowIsTrue
    <2> QED
      BY <1>1, <2>1 DEF RowsAreTrue
  <1>4. RowsAreKept'
    <2>1. \A t, c : RowsOf(t, c)' = RowsOf(t, c)
      BY <1>1 DEF RowsOf, SourceRows, DestinationRows
    <2> QED
      BY <1>1, <2>1 DEF IndInv, RowsAreKept
  <1>5. ActivitiesCounted'
    BY <1>1 DEF IndInv, ActivitiesCounted, ProcessedOutgoing
  <1>6. NothingForgotten'
    BY <1>1 DEF IndInv, NothingForgotten, KnownStatuses, Final, Outcome
  <1>7. ActivitiesTell'
    <2>1. \A t, directions : Seen(pending, t, directions)' <=> Seen(pending, t, directions)
      BY <1>1 DEF Seen
    <2>2. \A list, t : Tells(list, pending, t)' <=> Tells(list, pending, t)
      <3>1. \A t : Expected(pending, t)' = Expected(pending, t)
        BY <1>0, <2>1 DEF Expected
      <3> QED
        BY <2>1, <3>1 DEF Tells
    <2>3. \A t : Trusted(t)' <=> Trusted(t)
      BY <1>1 DEF Trusted, Sole, OutgoingRows, NothingLost
    <2> QED
      BY <1>1, <2>2, <2>3 DEF ActivitiesTell
  <1> QED
    BY <1>2, <1>3, <1>4, <1>5, <1>6, <1>7 DEF IndInv

LEMMA ListStep ==
    ASSUME IndInv, List
    PROVE  IndInv'
  <1>1. /\ pc = "row" /\ pc' = "row" /\ phase' = phase + 1 /\ phase < Len(Phases)
        /\ rows' = Unprocessed(phase + 1) /\ tx' = tx /\ writes' = writes
        /\ UNCHANGED <<chainVars, pending, activities, lost>>
    BY DEF List, ListDone
  <1>2. phase' \in 1..Len(Phases)
    BY <1>1, PhasesHaveChains DEF IndInv, TypeOK
  <1>3. ListIsOpen'
    BY <1>1, <1>2 DEF ListIsOpen, Unprocessed, Table
  <1> QED
    BY <1>1, <1>2, <1>3, NothingWrittenStep DEF IndInv, TypeOK

LEMMA DoneStep ==
    ASSUME IndInv, Done
    PROVE  IndInv'
  <1>1. /\ pc = "row" /\ pc' = "row" /\ phase' = 0 /\ rows' = {} /\ tx' = tx /\ writes' = writes
        /\ UNCHANGED <<chainVars, pending, activities, lost>>
    BY DEF Done, ListDone
  <1>2. ListIsOpen' /\ phase' \in 0..Len(Phases)
    BY <1>1, PhasesHaveChains DEF ListIsOpen
  <1> QED
    BY <1>1, <1>2, NothingWrittenStep DEF IndInv, TypeOK

LEMMA IncomingNotFoundStep ==
    ASSUME IndInv, IncomingNotFound
    PROVE  IndInv'
  <1>1. /\ pc = "row" /\ pc' = "row" /\ phase' = phase /\ rows' = rows \ {CurrentRowId}
        /\ tx' = tx /\ writes' = writes
        /\ UNCHANGED <<chainVars, pending, activities, lost>>
    BY DEF IncomingNotFound
  <1>2. ListIsOpen'
    BY <1>1 DEF IndInv, ListIsOpen, Table
  <1> QED
    BY <1>1, <1>2, NothingWrittenStep DEF IndInv, TypeOK

-----------------------------------------------------------------------------
(* Rows that the matcher joins *)

\* What the row being handled is about to write, before it is marked.
LEMMA RowJoinedStep ==
    ASSUME IndInv, pc = "row", rows # {}, pc' = "mark",
           UNCHANGED <<chainVars, pending, activities, phase, rows, lost>>,
           tx' \in Seq(ActivityRow), writes' \in BOOLEAN,
           NEW new, new = IF writes' THEN tx' ELSE activities[Current],
           Len(new) <= Cardinality(ProcessedOutgoing(MarkedPending, Current)),
           KnownStatuses(new, Current), Extends(new, activities[Current]),
           Trusted(Current) => Tells(new, MarkedPending, Current)
    PROVE  IndInv'
  <1>1. /\ source' = source /\ fate' = fate /\ indexed' = indexed /\ pending' = pending
        /\ activities' = activities /\ phase' = phase /\ rows' = rows /\ lost' = lost
    BY DEF chainVars
  <1>2. /\ Current' = Current /\ CurrentRowId' = CurrentRowId /\ Table' = Table
        /\ MarkedPending' = MarkedPending
    BY <1>1 DEF Current, CurrentRow, CurrentRowId, Table, MarkedPending
  <1>3. Written' = new
    BY <1>1, <1>2 DEF Written
  <1> USE DEF IndInv
  <1>4. \A t : Initial(t)' = Initial(t) /\ Final(t)' = Final(t)
    BY <1>1 DEF Initial, Final, Outcome
  <1>5. TypeOK'
    BY <1>1 DEF TypeOK
  <1>6. RowsAreTrue'
    <2>1. \A row, c : RowIsTrue(row, c)' = RowIsTrue(row, c)
      BY <1>1, <1>4 DEF RowIsTrue
    <2> QED
      BY <1>1, <2>1 DEF RowsAreTrue
  <1>7. RowsAreKept'
    <2>1. \A t, c : RowsOf(t, c)' = RowsOf(t, c)
      BY <1>1 DEF RowsOf, SourceRows, DestinationRows
    <2> QED
      BY <1>1, <2>1 DEF RowsAreKept
  <1>8. ListIsOpen'
    BY <1>1, <1>2 DEF ListIsOpen
  <1>9. \A p, t : ProcessedOutgoing(p, t)' = ProcessedOutgoing(p', t)
    BY <1>1 DEF ProcessedOutgoing
  <1>10. ActivitiesCounted'
    BY <1>1, <1>2, <1>3 DEF ActivitiesCounted, ProcessedOutgoing
  <1>11. NothingForgotten'
    BY <1>1, <1>2, <1>3, <1>4 DEF NothingForgotten, KnownStatuses, Extends
  <1>12. ActivitiesTell'
    <2>1. \A t, directions :
             /\ Seen(pending, t, directions)' <=> Seen(pending, t, directions)
             /\ Seen(MarkedPending, t, directions)' <=> Seen(MarkedPending, t, directions)
      BY <1>1, <1>2 DEF Seen
    <2>2. \A list, t : /\ Tells(list, pending, t)' <=> Tells(list, pending, t)
                       /\ Tells(list, MarkedPending, t)' <=> Tells(list, MarkedPending, t)
      <3>1. \A t : Expected(pending, t)' = Expected(pending, t)
        BY <1>4, <2>1 DEF Expected
      <3>2. \A t : Expected(MarkedPending, t)' = Expected(MarkedPending, t)
        BY <1>2, <1>4, <2>1, <1>1 DEF Expected, Seen
      <3> QED
        BY <2>1, <3>1, <3>2 DEF Tells
    <2>3. \A t : Trusted(t)' <=> Trusted(t)
      BY <1>1 DEF Trusted, Sole, OutgoingRows, NothingLost
    <2> QED
      BY <1>1, <1>2, <1>3, <2>2, <2>3 DEF ActivitiesTell
  <1> QED
    BY <1>5, <1>6, <1>7, <1>8, <1>10, <1>11, <1>12

\* An incoming row has been seen among the incoming ones and the responses.
LEMMA SeenIncoming ==
    \A p, t : Seen(p, t, {"Incoming"}) => Seen(p, t, {"Incoming", "Response"})
  BY DEF Seen

\* What there is of a row and of the transfer it is about when it is handled.
LEMMA RowHandled ==
    ASSUME IndInv, pc = "row", rows # {}
    PROVE  /\ Current \in Transfers
           /\ CurrentRow \in PendingRow
           /\ activities[Current] \in Seq(ActivityRow)
           /\ Len(activities[Current]) <= Cardinality(ProcessedOutgoing(pending, Current))
           /\ Cardinality(ProcessedOutgoing(pending, Current)) \in Nat
           /\ KnownStatuses(activities[Current], Current)
           /\ CurrentRow.direction = "Outgoing" => CurrentRow.status = Initial(Current)
           /\ CurrentRow.direction # "Outgoing" => CurrentRow.status = Final(Current)
           /\ Trusted(Current) => Tells(activities[Current], pending, Current)
  <1>1. Current \in Transfers /\ CurrentRow \in PendingRow /\ Current = CurrentRow.transfer
    BY CurrentRowIsListed DEF IndInv, Current
  <1>2. activities[Current] \in Seq(ActivityRow) /\ pending \in [Chains -> Seq(PendingRow)]
    BY <1>1 DEF IndInv, TypeOK
  <1>3. Len(activities[Current]) <= Cardinality(ProcessedOutgoing(pending, Current))
    BY <1>1 DEF IndInv, ActivitiesCounted
  <1>4. Cardinality(ProcessedOutgoing(pending, Current)) \in Nat
    BY <1>1, <1>2, OutgoingIsFinite DEF IndInv
  <1>5. KnownStatuses(activities[Current], Current)
    BY <1>1 DEF IndInv, NothingForgotten
  <1>6. /\ CurrentRow.direction = "Outgoing" => CurrentRow.status = Initial(Current)
        /\ CurrentRow.direction # "Outgoing" => CurrentRow.status = Final(Current)
    <2>1. RowIsTrue(CurrentRow, Phases[phase].chain)
      BY MarkedTables
    <2> QED
      BY <1>1, <2>1 DEF RowIsTrue
  <1>7. Trusted(Current) => Tells(activities[Current], pending, Current)
    BY <1>1 DEF IndInv, ActivitiesTell
  <1> QED
    BY <1>1, <1>2, <1>3, <1>4, <1>5, <1>6, <1>7

LEMMA OutgoingStep ==
    ASSUME IndInv, Outgoing
    PROVE  IndInv'
  <1> DEFINE t == Current
             new == Append(activities[t], Activity(CurrentRow.status, FALSE))
  <1>1. /\ pc = "row" /\ rows # {} /\ CurrentRow.direction = "Outgoing" /\ pc' = "mark"
        /\ tx' = new /\ writes' = TRUE
        /\ UNCHANGED <<chainVars, pending, activities, phase, rows, lost>>
    BY DEF Outgoing
  <1>2. /\ t \in Transfers /\ CurrentRow \in PendingRow /\ CurrentRow.status = Initial(t)
        /\ activities[t] \in Seq(ActivityRow)
        /\ Len(activities[t]) <= Cardinality(ProcessedOutgoing(pending, t))
        /\ Cardinality(ProcessedOutgoing(pending, t)) \in Nat
        /\ KnownStatuses(activities[t], t)
        /\ Trusted(t) => Tells(activities[t], pending, t)
    BY <1>1, RowHandled
  <1> DEFINE a == Activity(CurrentRow.status, FALSE)
  <1>3. a \in ActivityRow /\ a.status = Initial(t) /\ a.dest = FALSE
    BY <1>2 DEF Activity, ActivityRow, PendingRow
  <1>4. new = Append(activities[t], a)
    OBVIOUS
  <1> HIDE DEF a, new, t
  <1>5. new \in Seq(ActivityRow)
    BY <1>2, <1>3, <1>4
  <1>6. Len(new) <= Cardinality(ProcessedOutgoing(MarkedPending, t))
    <2>1. Cardinality(ProcessedOutgoing(MarkedPending, t)) =
             Cardinality(ProcessedOutgoing(pending, t)) + 1
      BY <1>1, <1>2, MarkingAddsCurrentRow DEF t
    <2> QED
      BY <1>2, <1>4, <2>1
  <1>7. KnownStatuses(new, t)
    <2>1. Initial(t) \in {"Pending", Final(t)}
      BY DEF Initial, Final, Outcome, Activity
    <2> QED
      BY <1>2, <1>3, <1>4, <2>1 DEF KnownStatuses
  <1>8. Extends(new, activities[t])
    BY <1>2, <1>4 DEF Extends
  <1>9. ASSUME Trusted(t) PROVE Tells(new, MarkedPending, t)
    <2>1. Tells(activities[t], pending, t)
      BY <1>2, <1>9
    <2>2. ~Seen(pending, t, {"Outgoing"})
      <3> SUFFICES ASSUME Seen(pending, t, {"Outgoing"}) PROVE FALSE
        OBVIOUS
      <3>1. PICK d \in Chains : \E i \in DOMAIN pending[d] :
               pending[d][i].transfer = t /\ pending[d][i].processed
               /\ pending[d][i].direction = "Outgoing"
        BY DEF Seen
      <3>2. PICK i \in DOMAIN pending[d] :
               pending[d][i].transfer = t /\ pending[d][i].processed
               /\ pending[d][i].direction = "Outgoing"
        BY <3>1
      <3>3. d = source[t]
        BY <3>2 DEF IndInv, RowsAreTrue, RowIsTrue
      <3>4. /\ CurrentRowId \in DOMAIN pending[Phases[phase].chain]
            /\ Current = CurrentRow.transfer
            /\ CurrentRow = pending[Phases[phase].chain][CurrentRowId]
        BY <1>1, CurrentRowIsListed DEF IndInv, CurrentRow, Table, Current
      <3>5. ~CurrentRow.processed /\ RowIsTrue(CurrentRow, Phases[phase].chain)
        BY <1>1, MarkedTables
      <3>6. Phases[phase].chain = source[t]
        BY <1>1, <3>4, <3>5 DEF RowIsTrue, t
      <3>7. i \in OutgoingRows(t)
        BY <3>2, <3>3 DEF OutgoingRows
      <3>8. CurrentRowId \in OutgoingRows(t)
        BY <1>1, <3>4, <3>6 DEF OutgoingRows, t
      <3>9. i = CurrentRowId
        BY <1>9, <3>7, <3>8 DEF Trusted, Sole
      <3> QED
        BY <3>2, <3>3, <3>4, <3>5, <3>6, <3>9
    <2>3. activities[t] = << >> /\ ~Seen(pending, t, {"Incoming", "Response"})
      BY <2>1, <2>2 DEF Tells, Expected
    <2>4. new = << a >>
      BY <1>4, <2>3
    <2>5. ~Seen(pending, t, {"Incoming"})
      BY <2>3, SeenIncoming
    <2>6. /\ Seen(MarkedPending, t, {"Outgoing"}) = TRUE
          /\ Seen(MarkedPending, t, {"Incoming", "Response"}) = FALSE
          /\ Seen(MarkedPending, t, {"Incoming"}) = FALSE
      <3>1. \A directions :
               Seen(MarkedPending, t, directions) <=>
                  Seen(pending, t, directions) \/ CurrentRow.direction \in directions
        BY <1>1, MarkingAddsCurrentRow DEF t
      <3>2. /\ Seen(MarkedPending, t, {"Outgoing"})
            /\ ~Seen(MarkedPending, t, {"Incoming", "Response"})
            /\ ~Seen(MarkedPending, t, {"Incoming"})
        BY <1>1, <2>3, <2>5, <3>1
      <3> QED
        BY <3>2 DEF Seen
    <2>7. a = Activity(Initial(t), FALSE)
      BY <1>2 DEF a
    <2> QED
      BY <2>4, <2>6, <2>7 DEF Tells, Expected
  <1>10. tx' \in Seq(ActivityRow) /\ writes' \in BOOLEAN
        /\ new = IF writes' THEN tx' ELSE activities[Current]
    BY <1>1, <1>5 DEF new, t
  <1> QED
    BY <1>1, <1>5, <1>6, <1>7, <1>8, <1>9, <1>10, RowJoinedStep DEF t

LEMMA ResponseLateStep ==
    ASSUME IndInv, ResponseLate
    PROVE  IndInv'
  <1> DEFINE t == Current
  <1>1. /\ pc = "row" /\ rows # {} /\ CurrentRow.direction = "Response" /\ pc' = "mark"
        /\ tx' = tx /\ writes' = FALSE /\ \E i \in DOMAIN activities[t] : activities[t][i].dest
        /\ UNCHANGED <<chainVars, pending, activities, phase, rows, lost>>
    BY DEF ResponseLate
  <1>2. /\ t \in Transfers
        /\ activities[t] \in Seq(ActivityRow)
        /\ Len(activities[t]) <= Cardinality(ProcessedOutgoing(pending, t))
        /\ Cardinality(ProcessedOutgoing(pending, t)) \in Nat
        /\ KnownStatuses(activities[t], t)
        /\ Trusted(t) => Tells(activities[t], pending, t)
    BY <1>1, RowHandled
  <1> HIDE DEF t
  <1>3. Len(activities[t]) <= Cardinality(ProcessedOutgoing(MarkedPending, t))
    BY <1>1, <1>2, MarkingAddsCurrentRow DEF t
  <1>4. Extends(activities[t], activities[t])
    BY DEF Extends
  <1>5. ASSUME Trusted(t) PROVE Tells(activities[t], MarkedPending, t)
    <2>1. Tells(activities[t], pending, t)
      BY <1>2, <1>5
    <2>2. Seen(pending, t, {"Outgoing"}) /\ Seen(pending, t, {"Incoming"})
      BY <1>1, <2>1 DEF Tells, Expected, Activity
    <2>3. Seen(pending, t, {"Incoming", "Response"})
      BY <2>2, SeenIncoming
    <2>4. \A directions : Seen(pending, t, directions) => Seen(MarkedPending, t, directions)
      BY <1>1, MarkingAddsCurrentRow
    <2>5. /\ Seen(pending, t, {"Outgoing"}) = TRUE
          /\ Seen(pending, t, {"Incoming"}) = TRUE
          /\ Seen(pending, t, {"Incoming", "Response"}) = TRUE
      BY <2>2, <2>3 DEF Seen
    <2>6. /\ Seen(MarkedPending, t, {"Outgoing"}) = TRUE
          /\ Seen(MarkedPending, t, {"Incoming"}) = TRUE
          /\ Seen(MarkedPending, t, {"Incoming", "Response"}) = TRUE
      <3>1. /\ Seen(MarkedPending, t, {"Outgoing"})
            /\ Seen(MarkedPending, t, {"Incoming"})
            /\ Seen(MarkedPending, t, {"Incoming", "Response"})
        BY <2>2, <2>3, <2>4
      <3> QED
        BY <3>1 DEF Seen
    <2> QED
      BY <2>1, <2>5, <2>6 DEF Tells, Expected
  <1>6. tx' \in Seq(ActivityRow) /\ writes' \in BOOLEAN
        /\ activities[t] = IF writes' THEN tx' ELSE activities[Current]
    BY <1>1 DEF t, IndInv, TypeOK
  <1> QED
    BY <1>1, <1>2, <1>3, <1>4, <1>5, <1>6, RowJoinedStep DEF t

LEMMA IncomingFoundStep ==
    ASSUME IndInv, IncomingFound
    PROVE  IndInv'
  <1> DEFINE t == Current
             row == CurrentRow
             old == activities[t]
  <1>1. /\ pc = "row" /\ rows # {} /\ row.direction # "Outgoing" /\ pc' = "mark"
        /\ writes' = TRUE
        /\ UNCHANGED <<chainVars, pending, activities, phase, rows, lost>>
    BY DEF IncomingFound
  <1>2. PICK i \in DOMAIN old : tx' = [old EXCEPT ![i] = UpdatedActivity(@, row)]
    BY DEF IncomingFound
  <1>3. /\ t \in Transfers /\ row \in PendingRow /\ row.status = Final(t)
        /\ old \in Seq(ActivityRow)
        /\ Len(old) <= Cardinality(ProcessedOutgoing(pending, t))
        /\ Cardinality(ProcessedOutgoing(pending, t)) \in Nat
        /\ KnownStatuses(old, t)
        /\ Trusted(t) => Tells(old, pending, t)
    BY <1>1, RowHandled
  <1> DEFINE a == UpdatedActivity(old[i], row)
             new == [old EXCEPT ![i] = a]
  <1>4. tx' = new
    BY <1>2
  <1>5. /\ a \in ActivityRow /\ a.status = Final(t)
        /\ a.dest = (old[i].dest \/ row.direction = "Incoming")
        /\ a = Activity(Final(t), old[i].dest \/ row.direction = "Incoming")
    BY <1>3 DEF UpdatedActivity, Activity, ActivityRow, PendingRow
  <1> HIDE DEF a, old, t, row
  <1>6. new \in Seq(ActivityRow) /\ Len(new) = Len(old) /\ DOMAIN new = DOMAIN old
        /\ new[i] = a /\ \A j \in DOMAIN old : j # i => new[j] = old[j]
    BY <1>3, <1>5, ExceptSeq
  <1> HIDE DEF new
  <1>7. Len(new) <= Cardinality(ProcessedOutgoing(MarkedPending, t))
    <2>1. Cardinality(ProcessedOutgoing(MarkedPending, t)) =
             Cardinality(ProcessedOutgoing(pending, t))
      BY <1>1, <1>3, MarkingAddsCurrentRow DEF t, row
    <2> QED
      BY <1>3, <1>6, <2>1
  <1>8. KnownStatuses(new, t)
    BY <1>3, <1>5, <1>6 DEF KnownStatuses
  <1>9. Extends(new, old)
    BY <1>3, <1>5, <1>6 DEF Extends, KnownStatuses
  <1>10. ASSUME Trusted(t) PROVE Tells(new, MarkedPending, t)
    <2>1. Tells(old, pending, t)
      BY <1>3, <1>10
    <2>2. Seen(pending, t, {"Outgoing"}) /\ Len(old) = 1
      BY <1>2, <2>1 DEF Tells, Expected
    <2>3. i = 1 /\ old[i].dest = Seen(pending, t, {"Incoming"})
      BY <1>2, <2>1, <2>2 DEF Tells, Expected, Activity
    <2>4. new = << a >>
      BY <1>3, <1>6, <2>2, <2>3
    <2>5. \A directions :
             Seen(MarkedPending, t, directions) <=>
                Seen(pending, t, directions) \/ row.direction \in directions
      BY <1>1, MarkingAddsCurrentRow DEF t, row
    <2>6. row.direction \in {"Incoming", "Response"}
      BY <1>1, <1>3 DEF PendingRow, Directions
    <2>7. /\ Seen(MarkedPending, t, {"Outgoing"})
          /\ Seen(MarkedPending, t, {"Incoming", "Response"})
          /\ Seen(MarkedPending, t, {"Incoming"}) <=>
                Seen(pending, t, {"Incoming"}) \/ row.direction = "Incoming"
      BY <2>2, <2>5, <2>6
    <2>8. /\ Seen(MarkedPending, t, {"Outgoing"}) = TRUE
          /\ Seen(MarkedPending, t, {"Incoming", "Response"}) = TRUE
          /\ Seen(MarkedPending, t, {"Incoming"}) =
                (Seen(pending, t, {"Incoming"}) \/ row.direction = "Incoming")
      BY <2>7 DEF Seen
    <2> QED
      BY <1>5, <2>3, <2>4, <2>8 DEF Tells, Expected
  <1>11. tx' \in Seq(ActivityRow) /\ writes' \in BOOLEAN
         /\ new = IF writes' THEN tx' ELSE activities[Current]
    BY <1>1, <1>4, <1>6
  <1> QED
    BY <1>1, <1>7, <1>8, <1>9, <1>10, <1>11, RowJoinedStep DEF t, old

-----------------------------------------------------------------------------
(* Rows that the matcher marks, and writes that are committed or lost *)

\* The row is marked, and what there is to write is still to be committed or is lost.
LEMMA MarkedStep ==
    ASSUME IndInv, pc = "mark", pending' = MarkedPending,
           UNCHANGED <<chainVars, activities>>, ListIsOpen',
           phase' \in 0..Len(Phases), tx' \in Seq(ActivityRow), writes' \in BOOLEAN,
           \/ /\ writes /\ pc' = "commit" /\ UNCHANGED <<phase, rows, tx, writes, lost>>
           \/ /\ pc' = "row"
              /\ lost' = IF writes THEN lost \cup {CurrentId} ELSE lost
    PROVE  IndInv'
  <1> DEFINE C == Phases[phase].chain
             id == CurrentRowId
  <1>1. /\ source' = source /\ fate' = fate /\ indexed' = indexed /\ activities' = activities
        /\ pc' \in {"row", "commit"} /\ rows # {}
    BY DEF chainVars, IndInv, ListIsOpen
  <1>2. /\ C \in Chains /\ id \in DOMAIN pending[C] /\ CurrentId = <<C, id>>
        /\ Current = pending[C][id].transfer /\ Current \in Transfers
    BY <1>1, CurrentRowIsListed DEF IndInv, CurrentRow, Current, Table, CurrentId
  <1>3. /\ pending' \in [Chains -> Seq(PendingRow)]
        /\ \A d \in Chains : DOMAIN pending'[d] = DOMAIN pending[d]
        /\ \A d \in Chains : \A j \in DOMAIN pending[d] :
              /\ pending'[d][j].transfer = pending[d][j].transfer
              /\ pending'[d][j].direction = pending[d][j].direction
              /\ pending'[d][j].status = pending[d][j].status
    BY <1>1, MarkedTables
  <1> HIDE DEF C, id
  <1> USE DEF IndInv
  <1>4. \A t : Initial(t)' = Initial(t) /\ Final(t)' = Final(t)
    BY <1>1 DEF Initial, Final, Outcome
  <1>5. lost \subseteq lost' /\ lost' \subseteq lost \cup {CurrentId}
    OBVIOUS
  <1>6. TypeOK'
    BY <1>1, <1>2, <1>3, <1>5 DEF TypeOK
  <1>7. RowsAreTrue'
    BY <1>1, <1>3, <1>4 DEF RowsAreTrue, RowIsTrue
  <1>8. RowsAreKept'
    <2>1. \A t, d : RowsOf(t, d)' = RowsOf(t, d)
      BY <1>1 DEF RowsOf, SourceRows, DestinationRows
    <2> SUFFICES ASSUME NEW t \in Transfers, NEW d \in Chains, NEW k \in 1..indexed[t][d]
                 PROVE  \E i \in DOMAIN pending'[d] :
                           /\ pending'[d][i].transfer = t
                           /\ pending'[d][i].direction = RowsOf(t, d)[k].direction
      BY <1>1, <2>1 DEF RowsAreKept
    <2> QED
      BY <1>3 DEF RowsAreKept
  <1>9. /\ \A t \in Transfers : ProcessedOutgoing(pending, t)' = ProcessedOutgoing(MarkedPending, t)
        /\ \A t, directions : Seen(pending, t, directions)' = Seen(MarkedPending, t, directions)
    BY <1>1 DEF ProcessedOutgoing, Seen
  <1>10. pc' = "commit" => writes /\ tx' = tx /\ Current' = Current /\ Written = tx
         /\ Written' = tx /\ lost' = lost
    <2> SUFFICES ASSUME pc' = "commit"
                 PROVE  writes /\ tx' = tx /\ Current' = Current /\ Written = tx
                        /\ Written' = tx /\ lost' = lost
      OBVIOUS
    <2>1. writes /\ UNCHANGED <<phase, rows, tx, writes, lost>>
      OBVIOUS
    <2>2. CurrentRowId' = CurrentRowId
      BY <2>1 DEF CurrentRowId
    <2>3. Current' = Current
      BY <1>2, <1>3, <2>1, <2>2 DEF Current, CurrentRow, Table, C, id
    <2> QED
      BY <2>1, <2>3 DEF Written
  <1>11. ActivitiesCounted'
    <2>1. \A t \in Transfers : Len(activities[t]) <= Cardinality(ProcessedOutgoing(MarkedPending, t))
      <3> SUFFICES ASSUME NEW t \in Transfers
                   PROVE  Len(activities[t]) <= Cardinality(ProcessedOutgoing(MarkedPending, t))
        OBVIOUS
      <3>1. Len(activities[t]) \in Nat /\ Len(activities[t]) <= Cardinality(ProcessedOutgoing(pending, t))
        BY DEF TypeOK, ActivitiesCounted
      <3>2. Cardinality(ProcessedOutgoing(pending, t)) \in Nat
        BY OutgoingIsFinite DEF TypeOK
      <3> QED
        BY <1>1, <3>1, <3>2, MarkingAddsCurrentRow
    <2>2. pc' = "commit" => Len(tx) <= Cardinality(ProcessedOutgoing(MarkedPending, Current))
      BY <1>10 DEF ActivitiesCounted
    <2> QED
      BY <1>1, <1>2, <1>9, <1>10, <2>1, <2>2 DEF ActivitiesCounted
  <1>12. NothingForgotten'
    BY <1>1, <1>4, <1>10 DEF NothingForgotten, KnownStatuses, Extends
  <1>13. ActivitiesTell'
    <2> SUFFICES ASSUME NEW t \in Transfers, Trusted(t)'
                 PROVE  Tells(IF pc = "commit" /\ Current = t THEN tx ELSE activities[t], pending, t)'
      BY <1>1 DEF ActivitiesTell
    <2>1. Trusted(t)
      <3>1. OutgoingRows(t)' = OutgoingRows(t)
        <4>1. source[t] \in Chains
          BY DEF TypeOK
        <4> QED
          BY <1>1, <1>3, <4>1 DEF OutgoingRows
      <3>2. NothingLost(t)
        BY <1>3, <1>5 DEF Trusted, NothingLost, TypeOK
      <3> QED
        BY <3>1, <3>2 DEF Trusted, Sole
    <2>2. \A list : Tells(list, pending, t)' <=> Tells(list, MarkedPending, t)
      <3>1. Expected(pending, t)' = Expected(MarkedPending, t)
        BY <1>4, <1>9 DEF Expected
      <3> QED
        BY <1>9, <3>1 DEF Tells
    <2>3. CASE t # Current
      <3>1. Tells(activities[t], MarkedPending, t)
        BY <1>1, <2>1, <2>3, MarkingTells DEF ActivitiesTell
      <3> QED
        BY <1>1, <1>10, <2>2, <2>3, <3>1
    <2>4. CASE t = Current /\ pc' = "commit"
      BY <1>10, <2>1, <2>2, <2>4 DEF ActivitiesTell
    <2>5. CASE t = Current /\ pc' = "row"
      <3>1. ~writes
        <4> SUFFICES ASSUME writes PROVE FALSE
          OBVIOUS
        <4>1. CurrentId \in lost'
          BY <2>5
        <4>2. pending'[C][id].transfer = t
          BY <1>2, <1>3, <2>5
        <4> QED
          BY <1>2, <4>1, <4>2 DEF Trusted, NothingLost
      <3>2. Tells(activities[t], MarkedPending, t)
        BY <2>1, <2>5, <3>1 DEF ActivitiesTell, Written
      <3> QED
        BY <1>1, <2>2, <2>5, <3>2
    <2> QED
      BY <1>1, <2>3, <2>4, <2>5
  <1> QED
    BY <1>6, <1>7, <1>8, <1>11, <1>12, <1>13

LEMMA UpdateToProcessedStep ==
    ASSUME IndInv, UpdateToProcessed
    PROVE  IndInv'
  <1>1. /\ pc = "mark" /\ pending' = MarkedPending
        /\ pc' = (IF writes THEN "commit" ELSE "row")
        /\ rows' = (IF writes THEN rows ELSE rows \ {CurrentRowId})
        /\ UNCHANGED <<chainVars, activities, phase, tx, writes, lost>>
    BY DEF UpdateToProcessed
  <1>2. rows # {} /\ writes \in BOOLEAN
    BY <1>1 DEF IndInv, ListIsOpen, TypeOK
  <1> DEFINE C == Phases[phase].chain
             id == CurrentRowId
  <1>3. C \in Chains /\ id \in rows /\ id \in DOMAIN pending[C]
    BY <1>2, CurrentRowIsListed DEF IndInv
  <1>4. /\ DOMAIN pending'[C] = DOMAIN pending[C]
        /\ \A j \in DOMAIN pending[C] :
              pending'[C][j].processed <=> pending[C][j].processed \/ j = id
    BY <1>1, <1>2, <1>3, MarkedTables
  <1>5. ListIsOpen'
    <2>1. /\ Table' = pending'[C] /\ Table = pending[C] /\ rows \subseteq DOMAIN Table /\ phase # 0
          /\ \A j \in rows : ~Table[j].processed
      BY <1>1, <1>2 DEF IndInv, ListIsOpen, Table
    <2>2. writes => CurrentRowId' = id
      BY <1>1 DEF CurrentRowId
    <2> HIDE DEF C, id
    <2>3. CASE writes
      <3>1. rows' = rows /\ pc' = "commit" /\ writes' /\ phase' = phase
        BY <1>1, <2>3
      <3>2. \A j \in rows : pending'[C][j].processed <=> j = id
        BY <1>4, <2>1
      <3> QED
        BY <1>2, <1>4, <2>1, <2>2, <2>3, <3>1, <3>2 DEF ListIsOpen
    <2>4. CASE ~writes
      <3>1. rows' = rows \ {id} /\ pc' = "row" /\ phase' = phase
        BY <1>1, <2>4 DEF id
      <3>2. \A j \in rows' : ~pending'[C][j].processed
        BY <1>4, <2>1, <3>1
      <3> QED
        BY <1>2, <1>4, <2>1, <3>1, <3>2 DEF ListIsOpen
    <2> QED
      BY <1>2, <2>3, <2>4
  <1> QED
    BY <1>1, <1>2, <1>5, MarkedStep DEF IndInv, TypeOK

\* The marked row's write is committed, or it is lost.
LEMMA SettledStep ==
    ASSUME IndInv, pc = "commit", pc' = "row",
           UNCHANGED <<chainVars, pending>>, ListIsOpen',
           phase' \in 0..Len(Phases), tx' \in Seq(ActivityRow), writes' \in BOOLEAN,
           \/ activities' = [activities EXCEPT ![Current] = tx] /\ UNCHANGED lost
           \/ UNCHANGED activities /\ lost' = lost \cup {CurrentId}
    PROVE  IndInv'
  <1> USE DEF IndInv
  <1>1. /\ source' = source /\ fate' = fate /\ indexed' = indexed /\ pending' = pending
        /\ rows # {} /\ Written = tx
    BY DEF chainVars, ListIsOpen, Written
  <1>2. /\ Phases[phase].chain \in Chains /\ CurrentRowId \in DOMAIN pending[Phases[phase].chain]
        /\ Current = pending[Phases[phase].chain][CurrentRowId].transfer /\ Current \in Transfers
    BY <1>1, CurrentRowIsListed DEF CurrentRow, Current, Table
  <1>3. CurrentId[1] \in Chains /\ CurrentId[2] \in DOMAIN pending[CurrentId[1]]
        /\ pending[CurrentId[1]][CurrentId[2]].transfer = Current
    BY <1>2 DEF CurrentId
  <1>4. \A t \in Transfers : activities'[t] = activities[t] \/ (t = Current /\ activities'[t] = tx)
    BY <1>2 DEF TypeOK
  <1>5. activities' \in [Transfers -> Seq(ActivityRow)]
    BY <1>2 DEF TypeOK
  <1>6. lost \subseteq lost' /\ lost' \subseteq lost \cup {CurrentId}
    OBVIOUS
  <1>7. \A t : Initial(t)' = Initial(t) /\ Final(t)' = Final(t)
    BY <1>1 DEF Initial, Final, Outcome
  <1>8. TypeOK'
    BY <1>1, <1>3, <1>5, <1>6 DEF TypeOK
  <1>9. RowsAreTrue'
    <2>1. \A row, c : RowIsTrue(row, c)' = RowIsTrue(row, c)
      BY <1>1, <1>7 DEF RowIsTrue
    <2> QED
      BY <1>1, <2>1 DEF RowsAreTrue
  <1>10. RowsAreKept'
    <2>1. \A t, c : RowsOf(t, c)' = RowsOf(t, c)
      BY <1>1 DEF RowsOf, SourceRows, DestinationRows
    <2> QED
      BY <1>1, <2>1 DEF RowsAreKept
  <1>11. ActivitiesCounted'
    <2>1. \A t \in Transfers : ProcessedOutgoing(pending, t)' = ProcessedOutgoing(pending, t)
      BY <1>1 DEF ProcessedOutgoing
    <2> QED
      BY <1>4, <2>1 DEF ActivitiesCounted
  <1>12. NothingForgotten'
    BY <1>1, <1>4, <1>7 DEF NothingForgotten, KnownStatuses
  <1>13. ActivitiesTell'
    <2> SUFFICES ASSUME NEW t \in Transfers, Trusted(t)'
                 PROVE  Tells(activities[t], pending, t)'
      BY DEF ActivitiesTell
    <2>1. Trusted(t)
      BY <1>1, <1>6 DEF Trusted, Sole, OutgoingRows, NothingLost
    <2>2. \A list : Tells(list, pending, t)' <=> Tells(list, pending, t)
      <3>1. \A directions : Seen(pending, t, directions)' <=> Seen(pending, t, directions)
        BY <1>1 DEF Seen
      <3>2. Expected(pending, t)' = Expected(pending, t)
        BY <1>7, <3>1 DEF Expected
      <3> QED
        BY <3>1, <3>2 DEF Tells
    <2>3. CASE t # Current
      BY <1>4, <2>1, <2>2, <2>3 DEF ActivitiesTell
    <2>4. CASE t = Current
      <3>1. lost' = lost /\ activities' = [activities EXCEPT ![Current] = tx]
        <4>1. CurrentId \notin lost'
          BY <1>1, <1>3, <2>4 DEF Trusted, NothingLost
        <4> QED
          BY <4>1
      <3>2. activities'[t] = tx
        BY <1>2, <2>4, <3>1 DEF TypeOK
      <3> QED
        BY <2>1, <2>2, <2>4, <3>2 DEF ActivitiesTell
    <2> QED
      BY <2>3, <2>4
  <1> QED
    BY <1>8, <1>9, <1>10, <1>11, <1>12, <1>13

LEMMA CommitStep ==
    ASSUME IndInv, Commit
    PROVE  IndInv'
  <1>1. /\ pc = "commit" /\ pc' = "row" /\ rows' = rows \ {CurrentRowId}
        /\ activities' = [activities EXCEPT ![Current] = tx]
        /\ tx' = << >> /\ writes' = FALSE
        /\ UNCHANGED <<chainVars, pending, phase, lost>>
    BY DEF Commit
  <1>2. ListIsOpen'
    BY <1>1 DEF IndInv, ListIsOpen, Table
  <1>3. phase' \in 0..Len(Phases) /\ tx' \in Seq(ActivityRow) /\ writes' \in BOOLEAN
    <2>1. << >> \in Seq(ActivityRow)
      OBVIOUS
    <2> QED
      BY <1>1, <2>1 DEF IndInv, TypeOK
  <1> QED
    BY <1>1, <1>2, <1>3, SettledStep

\* A failed statement or a crash: of the row being handled, nothing is written, the
\* mark alone, or the mark and the activity.
LEMMA FailStep ==
    ASSUME IndInv, Fail
    PROVE  IndInv'
  <1>1. /\ phase' = 0 /\ rows' = {} /\ pc' = "row" /\ tx' = << >> /\ writes' = FALSE
        /\ UNCHANGED chainVars
    BY DEF Fail, Abort
  <1>2. ListIsOpen'
    BY <1>1 DEF ListIsOpen
  <1>3. phase' \in 0..Len(Phases) /\ tx' \in Seq(ActivityRow) /\ writes' \in BOOLEAN
    <2>1. << >> \in Seq(ActivityRow)
      OBVIOUS
    <2>2. phase' \in 0..Len(Phases)
      BY <1>1, PhasesHaveChains
    <2> QED
      BY <1>1, <2>1, <2>2
  <1>4. CASE pc = "row" /\ UNCHANGED <<pending, activities, lost>>
    BY <1>1, <1>2, <1>3, <1>4, NothingWrittenStep
  <1>5. CASE pc = "mark" /\ UNCHANGED <<pending, activities, lost>>
    BY <1>1, <1>2, <1>3, <1>5, NothingWrittenStep
  <1>6. CASE /\ pc = "mark" /\ pending' = MarkedPending /\ UNCHANGED activities
             /\ lost' = IF writes THEN lost \cup {CurrentId} ELSE lost
    BY <1>1, <1>2, <1>3, <1>6, MarkedStep
  <1>7. CASE /\ pc = "commit" /\ UNCHANGED pending
             /\ \/ activities' = [activities EXCEPT ![Current] = tx] /\ UNCHANGED lost
                \/ UNCHANGED activities /\ lost' = lost \cup {CurrentId}
    BY <1>1, <1>2, <1>3, <1>7, SettledStep
  <1>8. AbortRow
    BY DEF Fail
  <1> QED
    BY <1>4, <1>5, <1>6, <1>7, <1>8 DEF AbortRow

-----------------------------------------------------------------------------
(* The theorems *)

LEMMA InitInvariant == Init => IndInv
  <1> SUFFICES ASSUME Init PROVE IndInv
    OBVIOUS
  <1>1. TypeOK
    <2>1. /\ << >> \in Seq(ActivityRow) /\ << >> \in Seq(PendingRow)
          /\ 0 \in 0..Len(Phases)
      BY PhasesHaveChains
    <2> QED
      BY <2>1 DEF Init, TypeOK
  <1>2. \A c \in Chains : pending[c] = << >> /\ DOMAIN pending[c] = {}
    BY DEF Init
  <1>3. RowsAreTrue /\ RowsAreKept /\ ListIsOpen
    BY <1>2 DEF Init, RowsAreTrue, RowsAreKept, ListIsOpen
  <1>4. \A t \in Transfers : activities[t] = << >>
    BY DEF Init
  <1>5. ActivitiesCounted
    <2>1. pending \in [Chains -> Seq(PendingRow)]
      BY <1>1 DEF TypeOK
    <2>2. \A t \in Transfers : Cardinality(ProcessedOutgoing(pending, t)) \in Nat
      BY <1>1, <2>1, OutgoingIsFinite
    <2>3. \A t \in Transfers : Len(activities[t]) = 0
      BY <1>4
    <2> QED
      BY <2>2, <2>3 DEF Init, ActivitiesCounted
  <1>6. NothingForgotten
    BY <1>4 DEF Init, NothingForgotten, KnownStatuses
  <1>7. ActivitiesTell
    <2>1. \A t, directions : ~Seen(pending, t, directions)
      BY <1>2 DEF Seen
    <2> QED
      BY <1>4, <2>1 DEF Init, ActivitiesTell, Tells, Expected
  <1> QED
    BY <1>1, <1>3, <1>5, <1>6, <1>7 DEF IndInv

\* A step that changes nothing.
LEMMA StutteringStep ==
    ASSUME IndInv, UNCHANGED vars
    PROVE  IndInv'
  <1>1. /\ source' = source /\ fate' = fate /\ indexed' = indexed /\ pending' = pending
        /\ activities' = activities /\ phase' = phase /\ rows' = rows /\ pc' = pc /\ tx' = tx
        /\ writes' = writes /\ lost' = lost
    BY DEF vars, chainVars, matcherVars
  <1>2. /\ Current' = Current /\ CurrentRowId' = CurrentRowId /\ Table' = Table
        /\ MarkedPending' = MarkedPending
    BY <1>1 DEF Current, CurrentRow, CurrentRowId, Table, MarkedPending
  <1>3. \A t : Initial(t)' = Initial(t) /\ Final(t)' = Final(t)
    BY <1>1 DEF Initial, Final, Outcome
  <1>4. Written' = Written
    BY <1>1, <1>2 DEF Written
  <1>5. TypeOK'
    BY <1>1 DEF IndInv, TypeOK
  <1>6. RowsAreTrue'
    BY <1>1, <1>3 DEF IndInv, RowsAreTrue, RowIsTrue
  <1>7. RowsAreKept'
    <2>1. \A t, c : RowsOf(t, c)' = RowsOf(t, c)
      BY <1>1 DEF RowsOf, SourceRows, DestinationRows
    <2> QED
      BY <1>1, <2>1 DEF IndInv, RowsAreKept
  <1>8. ListIsOpen'
    BY <1>1, <1>2 DEF IndInv, ListIsOpen
  <1>9. ActivitiesCounted'
    BY <1>1, <1>2, <1>4 DEF IndInv, ActivitiesCounted, ProcessedOutgoing
  <1>10. NothingForgotten'
    BY <1>1, <1>2, <1>3, <1>4 DEF IndInv, NothingForgotten, KnownStatuses, Extends
  <1>11. ActivitiesTell'
    <2>1. \A list, t : /\ Tells(list, pending, t)' <=> Tells(list, pending, t)
                       /\ Tells(list, MarkedPending, t)' <=> Tells(list, MarkedPending, t)
      <3>1. \A t, directions :
               /\ Seen(pending, t, directions)' = Seen(pending, t, directions)
               /\ Seen(MarkedPending, t, directions)' = Seen(MarkedPending, t, directions)
        BY <1>1, <1>2 DEF Seen
      <3>2. \A t : Expected(pending, t)' = Expected(pending, t)
        BY <1>3, <3>1 DEF Expected
      <3>3. \A t : Expected(MarkedPending, t)' = Expected(MarkedPending, t)
        BY <1>3, <3>1 DEF Expected
      <3> QED
        BY <3>1, <3>2, <3>3 DEF Tells
    <2>2. \A t : Trusted(t)' <=> Trusted(t)
      BY <1>1 DEF Trusted, Sole, OutgoingRows, NothingLost
    <2> QED
      BY <1>1, <1>2, <1>4, <2>1, <2>2 DEF IndInv, ActivitiesTell
  <1> QED
    BY <1>5, <1>6, <1>7, <1>8, <1>9, <1>10, <1>11 DEF IndInv

LEMMA NextKeepsInvariant == IndInv /\ [Next]_vars => IndInv'
  <1> SUFFICES ASSUME IndInv, [Next]_vars PROVE IndInv'
    OBVIOUS
  <1>1. CASE Projections
    BY <1>1, HandleEventsStep DEF Projections
  <1>2. CASE \E c \in Chains : HandleEventsAgain(c)
    BY <1>2, HandleEventsAgainStep
  <1>3. CASE List
    BY <1>3, ListStep
  <1>4. CASE Done
    BY <1>4, DoneStep
  <1>5. CASE Outgoing
    BY <1>5, OutgoingStep
  <1>6. CASE IncomingNotFound
    BY <1>6, IncomingNotFoundStep
  <1>7. CASE ResponseLate
    BY <1>7, ResponseLateStep
  <1>8. CASE IncomingFound
    BY <1>8, IncomingFoundStep
  <1>9. CASE UpdateToProcessed
    BY <1>9, UpdateToProcessedStep
  <1>10. CASE Commit
    BY <1>10, CommitStep
  <1>11. CASE Fail
    BY <1>11, FailStep
  <1>12. CASE UNCHANGED vars
    BY <1>12, StutteringStep
  <1> QED
    BY <1>1, <1>2, <1>3, <1>4, <1>5, <1>6, <1>7, <1>8, <1>9, <1>10, <1>11, <1>12
       DEF Next, Matcher

\* Whatever order rows and executions come in: every activity has a row of its own that
\* is marked, every write keeps what was known, and the processed rows of a transfer
\* say what its activity must be.
THEOREM Invariance == Spec => []IndInv
  <1>1. Init => IndInv
    BY InitInvariant
  <1>2. IndInv /\ [Next]_vars => IndInv'
    BY NextKeepsInvariant
  <1> QED
    BY <1>1, <1>2, PTL DEF Spec

LEMMA OutgoingRowsAreFinite ==
    ASSUME TypeOK, NEW t \in Transfers
    PROVE  IsFiniteSet(OutgoingRows(t))
  <1>1. pending[source[t]] \in Seq(PendingRow)
    BY DEF TypeOK
  <1>2. DOMAIN pending[source[t]] = 1..Len(pending[source[t]]) /\ Len(pending[source[t]]) \in Nat
    BY <1>1
  <1>3. IsFiniteSet(DOMAIN pending[source[t]])
    <2>1. IsFiniteSet(1..Len(pending[source[t]]))
      BY <1>2, FS_Interval
    <2> QED
      BY <1>2, <2>1
  <1>4. OutgoingRows(t) \in SUBSET DOMAIN pending[source[t]]
    BY DEF OutgoingRows
  <1> QED
    BY <1>3, <1>4, FS_Subset

\* A pending row makes one activity at most, however often executions fail, although no
\* key makes an activity unique.
THEOREM ActivitiesAreNotRepeated == Spec => []OneActivity
  <1>1. IndInv => OneActivity
    <2> SUFFICES ASSUME IndInv, NEW t \in Transfers
                 PROVE  Len(activities[t]) <= Cardinality(OutgoingRows(t))
      BY DEF OneActivity
    <2>1. source[t] \in Chains /\ pending[source[t]] \in Seq(PendingRow) /\ Len(activities[t]) \in Nat
      BY DEF IndInv, TypeOK
    <2>2. ProcessedOutgoing(pending, t) \subseteq OutgoingRows(t)
      BY DEF ProcessedOutgoing, OutgoingRows
    <2>3. IsFiniteSet(OutgoingRows(t))
      BY OutgoingRowsAreFinite DEF IndInv
    <2>4. /\ Cardinality(ProcessedOutgoing(pending, t)) <= Cardinality(OutgoingRows(t))
          /\ Cardinality(ProcessedOutgoing(pending, t)) \in Nat /\ Cardinality(OutgoingRows(t)) \in Nat
      BY <2>2, <2>3, FS_Subset, FS_CardinalityType
    <2>5. Len(activities[t]) <= Cardinality(ProcessedOutgoing(pending, t))
      BY DEF IndInv, ActivitiesCounted
    <2> QED
      BY <2>1, <2>4, <2>5
  <1> QED
    BY <1>1, Invariance, PTL

\* Once every row of a transfer is processed its activity tells what became of it,
\* unless a write was lost, a block was handled twice or its channel was closed.
THEOREM ActivitiesAreTrue == Spec => []ActivityIsTrue
  <1>1. IndInv => ActivityIsTrue
    <2> SUFFICES ASSUME IndInv, NEW t \in Transfers, Processed(t), NothingLost(t), SentOnce(t),
                        pc # "commit"
                 PROVE  activities[t] =
                            << IF EndIsHeard(t) THEN Outcome(t) ELSE Activity("Pending", FALSE) >>
      BY DEF ActivityIsTrue
    <2>1. source[t] \in Chains /\ fate[t] \in Fates /\ pending \in [Chains -> Seq(PendingRow)]
      BY DEF IndInv, TypeOK
    <2>2. Trusted(t)
      <3>1. IsFiniteSet(OutgoingRows(t))
        BY OutgoingRowsAreFinite DEF IndInv
      <3>2. \E i : OutgoingRows(t) = {i}
        BY <3>1, FS_Singleton DEF SentOnce
      <3> QED
        BY <3>2 DEF Trusted, Sole
    <2>3. Tells(activities[t], pending, t)
      BY <2>2 DEF IndInv, ActivitiesTell
    <2>4. ASSUME NEW c \in Chains, NEW k \in 1..Len(RowsOf(t, c)), NEW directions,
                 RowsOf(t, c)[k].direction \in directions
          PROVE  Seen(pending, t, directions)
      <3>1. indexed[t][c] = Len(RowsOf(t, c))
        BY DEF Processed
      <3>2. PICK i \in DOMAIN pending[c] :
               /\ pending[c][i].transfer = t
               /\ pending[c][i].direction = RowsOf(t, c)[k].direction
        BY <3>1 DEF IndInv, RowsAreKept
      <3>3. pending[c][i].processed
        BY <2>1, <3>2 DEF Processed
      <3> QED
        BY <2>4, <3>2, <3>3 DEF Seen
    <2> DEFINE s == source[t]
               d == OtherChain(source[t])
    <2>5. d \in Chains /\ d # s
      BY <2>1, ChainsAssumption DEF Chains, OtherChain
    <2>6. Seen(pending, t, {"Outgoing"})
      <3>1. 1 \in 1..Len(RowsOf(t, s)) /\ RowsOf(t, s)[1].direction = "Outgoing"
        BY <2>1 DEF RowsOf, SourceRows, Row, Fates
      <3> QED
        BY <2>1, <2>4, <3>1
    <2>7. Seen(pending, t, {"Incoming"}) <=> fate[t] \in {"received", "rejected"}
      <3>1. ASSUME fate[t] \in {"received", "rejected"} PROVE Seen(pending, t, {"Incoming"})
        <4>1. 1 \in 1..Len(RowsOf(t, d)) /\ RowsOf(t, d)[1].direction = "Incoming"
          BY <2>5, <3>1 DEF RowsOf, DestinationRows, Row
        <4> QED
          BY <2>4, <2>5, <4>1
      <3>2. ASSUME Seen(pending, t, {"Incoming"}) PROVE fate[t] \in {"received", "rejected"}
        BY <3>2 DEF Seen, IndInv, RowsAreTrue, RowIsTrue
      <3> QED
        BY <3>1, <3>2
    <2> DEFINE ended == fate[t] \in {"received", "rejected", "timeout"}
    <2>8. Seen(pending, t, {"Incoming", "Response"}) <=> ended
      <3>1. ASSUME ended PROVE Seen(pending, t, {"Incoming", "Response"})
        <4>1. 2 \in 1..Len(RowsOf(t, s)) /\ RowsOf(t, s)[2].direction = "Response"
          BY <2>1, <3>1 DEF RowsOf, SourceRows, Row, Fates
        <4> QED
          BY <2>1, <2>4, <4>1
      <3>2. ASSUME Seen(pending, t, {"Incoming", "Response"}) PROVE ended
        BY <3>2 DEF Seen, IndInv, RowsAreTrue, RowIsTrue
      <3> QED
        BY <3>1, <3>2
    <2>9. /\ Seen(pending, t, {"Outgoing"}) = TRUE
          /\ fate[t] \in {"received", "rejected"} => Seen(pending, t, {"Incoming"}) = TRUE
          /\ fate[t] \notin {"received", "rejected"} => Seen(pending, t, {"Incoming"}) = FALSE
          /\ ended => Seen(pending, t, {"Incoming", "Response"}) = TRUE
          /\ ~ended => Seen(pending, t, {"Incoming", "Response"}) = FALSE
      <3>1. \A directions : Seen(pending, t, directions) \in BOOLEAN
        BY DEF Seen
      <3> QED
        BY <2>6, <2>7, <2>8, <3>1
    <2>10. activities[t] = Expected(pending, t)
      BY <2>3 DEF Tells
    <2>11. CASE fate[t] = "failed"
      BY <2>9, <2>10, <2>11 DEF Expected, Initial, Outcome, EndIsHeard
    <2>12. CASE fate[t] = "received"
      BY <2>9, <2>10, <2>12 DEF Expected, Final, Outcome, Activity, EndIsHeard
    <2>13. CASE fate[t] = "rejected"
      BY <2>9, <2>10, <2>13 DEF Expected, Final, Outcome, Activity, EndIsHeard
    <2>14. CASE fate[t] = "timeout"
      BY <2>9, <2>10, <2>14 DEF Expected, Final, Outcome, Activity, EndIsHeard
    <2>15. CASE fate[t] = "closed"
      BY <2>9, <2>10, <2>15 DEF Expected, Initial, Activity, EndIsHeard
    <2> QED
      BY <2>1, <2>11, <2>12, <2>13, <2>14, <2>15 DEF Fates
  <1> QED
    BY <1>1, Invariance, PTL

\* No step of the matcher or of a crash takes back an outcome or a destination that a
\* committed activity has.
THEOREM ActivitiesDoNotForget == Spec => ActivityNeverForgets
  <1> DEFINE Keeps == \A t \in Transfers : Extends(activities[t]', activities[t])
  <1>1. IndInv /\ [Next]_vars => [Keeps]_activities
    <2> SUFFICES ASSUME IndInv, [Next]_vars, activities' # activities PROVE Keeps
      OBVIOUS
    <2>1. pc = "commit" /\ activities' = [activities EXCEPT ![Current] = tx]
      BY DEF Next, Projections, Matcher, HandleEvents, HandleEventsAgain, List, Done, Outgoing,
             IncomingNotFound, ResponseLate, IncomingFound, UpdateToProcessed, Commit, Fail,
             AbortRow, vars
    <2>2. Written = tx /\ Extends(tx, activities[Current])
      BY <2>1 DEF IndInv, ListIsOpen, NothingForgotten, Written
    <2>3. \A t \in Transfers : activities'[t] = activities[t] \/ (t = Current /\ activities'[t] = tx)
      BY <2>1 DEF IndInv, TypeOK
    <2> QED
      BY <2>2, <2>3 DEF Extends
  <1>2. Spec => [][Keeps]_activities
    BY <1>1, Invariance, PTL DEF Spec
  <1>3. Keeps => \A t \in Transfers : \A i \in DOMAIN activities[t] :
                    /\ i \in DOMAIN activities'[t]
                    /\ activities[t][i].dest => activities'[t][i].dest
                    /\ activities[t][i].status # "Pending" =>
                          activities'[t][i].status = activities[t][i].status
    BY DEF Extends
  <1> QED
    BY <1>2, <1>3, PTL DEF ActivityNeverForgets
=============================================================================
