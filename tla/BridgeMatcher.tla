---------------------------- MODULE BridgeMatcher ---------------------------
(***************************************************************************)
(* Bridge activities (projection/bridge_activity).  On each of two chains  *)
(* the BridgePendingActivity projection appends a row for every transfer   *)
(* sent, packet received, acknowledged or timed out; the                   *)
(* BridgeActivityMatcher cron job of this chain reads the pending rows of  *)
(* both databases and joins them, by link id, into one activity per        *)
(* transfer.                                                               *)
(*                                                                         *)
(* The matcher's transaction covers the activity table only: the flag      *)
(* is_processed of the pending row is set outside of it, possibly in the   *)
(* other database, before the transaction commits.                         *)
(***************************************************************************)
EXTENDS Integers, Sequences, FiniteSets

CONSTANTS
    Transfers,    \* transfers, each with its link id
    This, That,   \* the matcher's chain and its counterparty
    MaxFaults     \* bound: failing statements and crashes of the matcher

\* Two chains, each with a database of its own.
ASSUME ChainsAssumption == This # That

Chains == {This, That}

(* What becomes of a transfer on the chains. *)
Fates == {"failed", "received", "rejected", "timeout", "closed"}

VARIABLES
    source,       \* the chain a transfer is sent from
    fate,         \* what becomes of it
    indexed,      \* rows of a transfer each chain's projection has written
    pending,      \* view_bridge_pending_activities of each chain, by id
    activities,   \* committed rows of view_bridge_activities of a transfer
    phase,        \* 0 between executions, else the list being handled
    rows,         \* ids of it still to handle, in their order
    pc,           \* "row", "mark", "commit"
    tx,           \* the transfer's rows as the open transaction leaves them
    writes,       \* the transaction has written and will be committed
    lost,         \* history: rows marked whose transaction did not commit
    faults

chainVars   == <<source, fate, indexed>>
matcherVars == <<phase, rows, pc, tx, writes>>
vars == <<chainVars, pending, activities, matcherVars, lost, faults>>

OtherChain(c) == IF c = This THEN That ELSE This

Row(t, direction, status) ==
    [transfer |-> t, direction |-> direction, status |-> status, processed |-> FALSE]

Activity(status, dest) == [status |-> status, dest |-> dest]

-----------------------------------------------------------------------------
(* BridgePendingActivity.HandleEvents *)

\* MsgIBCTransferTransfer or CronosSendToIBCCreated, then MsgIBCAcknowledgement
\* or MsgIBCTimeout, on the source chain.  The refund of a channel that was closed
\* (MsgIBCTimeoutOnClose) is not among the events listened to.
SourceRows(t) ==
    CASE fate[t] = "failed"   -> << Row(t, "Outgoing", "FailedOnChain") >>
      [] fate[t] = "closed"   -> << Row(t, "Outgoing", "Pending") >>
      [] fate[t] = "received" -> << Row(t, "Outgoing", "Pending"),
                                    Row(t, "Response", "CounterpartyConfirmed") >>
      [] OTHER                -> << Row(t, "Outgoing", "Pending"),
                                    Row(t, "Response", "CounterpartyRejected") >>

\* MsgIBCRecvPacket on the destination chain.
DestinationRows(t) ==
    CASE fate[t] = "received" -> << Row(t, "Incoming", "CounterpartyConfirmed") >>
      [] fate[t] = "rejected" -> << Row(t, "Incoming", "CounterpartyRejected") >>
      [] OTHER                -> << >>

RowsOf(t, c) == IF c = source[t] THEN SourceRows(t) ELSE DestinationRows(t)

\* The projections of the two chains run at their own pace: the row of a packet
\* may be written before the row of the transfer that sent it.
HandleEvents(c) ==
    \E t \in Transfers :
        /\ indexed[t][c] < Len(RowsOf(t, c))
        /\ pending' = [pending EXCEPT ![c] = Append(@, RowsOf(t, c)[indexed[t][c] + 1])]
        /\ indexed' = [indexed EXCEPT ![t][c] = @ + 1]
        /\ UNCHANGED <<source, fate, activities, matcherVars, lost, faults>>

\* A commit of the projection is applied and its reply lost: in the event-store mode
\* the block is handled again, and no key keeps its row from being inserted twice.
HandleEventsAgain(c) ==
    /\ faults < MaxFaults
    /\ faults' = faults + 1
    /\ pending[c] # << >>
    /\ pending' = [pending EXCEPT ![c] =
                       Append(@, [@[Len(@)] EXCEPT !.processed = FALSE])]
    /\ UNCHANGED <<chainVars, activities, matcherVars, lost>>

-----------------------------------------------------------------------------
(* BridgeActivityMatcher.Exec *)

\* The lists of one execution, in order.
Phases == << [chain |-> This, directions |-> {"Outgoing"}],
             [chain |-> This, directions |-> {"Incoming", "Response"}],
             [chain |-> That, directions |-> {"Outgoing"}],
             [chain |-> That, directions |-> {"Incoming", "Response"}] >>

Table == pending[Phases[phase].chain]
CurrentRowId == CHOOSE id \in rows : \A other \in rows : id <= other
CurrentRow == Table[CurrentRowId]
Current == CurrentRow.transfer

\* Mutant of Unprocessed: is_processed is not a condition of the list.
UnprocessedAll(p) ==
    LET table == pending[Phases[p].chain]
    IN  {id \in DOMAIN table : table[id].direction \in Phases[p].directions}

\* ListAllUnprocessedOutgoing, ListAllUnprocessedIncoming
Unprocessed(p) ==
    LET table == pending[Phases[p].chain]
    IN  {id \in DOMAIN table : /\ ~table[id].processed
                               /\ table[id].direction \in Phases[p].directions}

ListDone == pc = "row" /\ rows = {}

\* Exec starts, or goes on with the next list.
List ==
    /\ ListDone /\ phase < Len(Phases)
    /\ phase' = phase + 1
    /\ rows' = Unprocessed(phase + 1)
    /\ UNCHANGED <<chainVars, pending, activities, pc, tx, writes, lost, faults>>

\* Mutant of Done: the job is executed once.
DoneForGood ==
    /\ ListDone /\ phase = Len(Phases)
    /\ UNCHANGED vars

\* Exec returns; it is run again after the interval.
Done ==
    /\ ListDone /\ phase = Len(Phases)
    /\ phase' = 0
    /\ UNCHANGED <<chainVars, pending, activities, rows, pc, tx, writes, lost, faults>>

\* handleOutgoingRow: the activity is inserted; no key makes it unique.
Outgoing ==
    /\ pc = "row" /\ rows # {} /\ CurrentRow.direction = "Outgoing"
    /\ tx' = Append(activities[Current], Activity(CurrentRow.status, FALSE))
    /\ writes' = TRUE
    /\ pc' = "mark"
    /\ UNCHANGED <<chainVars, pending, activities, phase, rows, lost, faults>>

\* FindByLinkId: a row of the transfer, whichever comes first if there are several.
Found == activities[Current] # << >>

\* handleIncomingRow before an activity exists: left for another execution.
IncomingNotFound ==
    /\ pc = "row" /\ rows # {} /\ CurrentRow.direction # "Outgoing" /\ ~Found
    /\ rows' = rows \ {CurrentRowId}
    /\ UNCHANGED <<chainVars, pending, activities, phase, pc, tx, writes, lost, faults>>

\* A response after the counterparty's row has been joined adds nothing.
ResponseLate ==
    /\ pc = "row" /\ rows # {} /\ CurrentRow.direction = "Response" /\ Found
    /\ \E i \in DOMAIN activities[Current] : activities[Current][i].dest
    /\ writes' = FALSE
    /\ pc' = "mark"
    /\ UNCHANGED <<chainVars, pending, activities, phase, rows, tx, lost, faults>>

\* Mutant of UpdatedActivity: the status is left to the response.
UpdatedActivityNoStatus(activity, row) ==
    Activity(IF row.direction = "Response" THEN row.status ELSE activity.status,
             activity.dest \/ row.direction = "Incoming")

\* Mutant of UpdatedActivity: an incoming row says that the response is to come.
UpdatedActivityPending(activity, row) ==
    Activity(IF row.direction = "Incoming" THEN "Pending" ELSE row.status,
             activity.dest \/ row.direction = "Incoming")

\* A response changes the status, an incoming row the destination as well.
UpdatedActivity(activity, row) ==
    Activity(row.status, activity.dest \/ row.direction = "Incoming")

IncomingFound ==
    /\ pc = "row" /\ rows # {} /\ CurrentRow.direction # "Outgoing" /\ Found
    /\ \E i \in DOMAIN activities[Current] :
          /\ CurrentRow.direction = "Response" => ~activities[Current][i].dest
          /\ tx' = [activities[Current] EXCEPT ![i] = UpdatedActivity(@, CurrentRow)]
    /\ writes' = TRUE
    /\ pc' = "mark"
    /\ UNCHANGED <<chainVars, pending, activities, phase, rows, lost, faults>>

MarkedPending ==
    [pending EXCEPT ![Phases[phase].chain][CurrentRowId].processed = TRUE]

\* UpdateToProcessed takes effect at once; a late response has nothing to commit.
UpdateToProcessed ==
    /\ pc = "mark"
    /\ pending' = MarkedPending
    /\ pc' = IF writes THEN "commit" ELSE "row"
    /\ rows' = IF writes THEN rows ELSE rows \ {CurrentRowId}
    /\ UNCHANGED <<chainVars, activities, phase, tx, writes, lost, faults>>

Commit ==
    /\ pc = "commit"
    /\ activities' = [activities EXCEPT ![Current] = tx]
    /\ rows' = rows \ {CurrentRowId}
    /\ pc' = "row"
    /\ tx' = << >> /\ writes' = FALSE
    /\ UNCHANGED <<chainVars, pending, phase, lost, faults>>

-----------------------------------------------------------------------------
(* Failures: Exec returns the error and the transaction is rolled back, or the *)
(* process stops and the database does so.                                    *)

CurrentId == <<Phases[phase].chain, CurrentRowId>>

Abort ==
    /\ phase' = 0 /\ rows' = {} /\ pc' = "row" /\ tx' = << >> /\ writes' = FALSE
    /\ UNCHANGED chainVars

\* A row that is marked and whose write is not committed is never handled again.
AbortRow ==
    \/ /\ pc = "row"
       /\ UNCHANGED <<pending, activities, lost>>
    \/ /\ pc = "mark"
       /\ \/ UNCHANGED <<pending, lost>>
          \/ /\ pending' = MarkedPending
             /\ lost' = IF writes THEN lost \cup {CurrentId} ELSE lost
       /\ UNCHANGED activities
    \/ /\ pc = "commit"
       /\ \/ /\ activities' = [activities EXCEPT ![Current] = tx]
             /\ UNCHANGED lost
          \/ /\ lost' = lost \cup {CurrentId}
             /\ UNCHANGED activities
       /\ UNCHANGED pending

\* A statement fails, its answer is lost or the process crashes.
Fail ==
    /\ faults < MaxFaults
    /\ faults' = faults + 1
    /\ AbortRow
    /\ Abort

-----------------------------------------------------------------------------

Init ==
    /\ source \in [Transfers -> Chains] /\ fate \in [Transfers -> Fates]
    /\ indexed = [t \in Transfers |-> [c \in Chains |-> 0]]
    /\ pending = [c \in Chains |-> << >>]
    /\ activities = [t \in Transfers |-> << >>]
    /\ phase = 0 /\ rows = {} /\ pc = "row" /\ tx = << >> /\ writes = FALSE
    /\ lost = {} /\ faults = 0

Matcher == \/ List \/ Done \/ Outgoing \/ IncomingNotFound \/ ResponseLate
           \/ IncomingFound \/ UpdateToProcessed \/ Commit

Projections == \E c \in Chains : HandleEvents(c)

Next == Projections \/ Matcher \/ Fail \/ \E c \in Chains : HandleEventsAgain(c)

Spec == Init /\ [][Next]_vars

\* Both projections and the cron job keep running.
FairSpec == Spec /\ WF_vars(Projections) /\ WF_vars(Matcher)

-----------------------------------------------------------------------------
(* Properties *)

Statuses == {"Pending", "FailedOnChain", "CounterpartyConfirmed", "CounterpartyRejected"}

\* The pending rows that tell that a transfer was sent: one, unless a lost reply made
\* its chain's projection handle the block again.
OutgoingRows(t) ==
    {i \in DOMAIN pending[source[t]] :
        /\ pending[source[t]][i].transfer = t
        /\ pending[source[t]][i].direction = "Outgoing"}

\* A pending row makes one activity at most, although the table has no unique key and
\* a failed execution is repeated: the row is marked before the insert commits.
OneActivity == \A t \in Transfers : Len(activities[t]) <= Cardinality(OutgoingRows(t))

Processed(t) ==
    \A c \in Chains :
        /\ indexed[t][c] = Len(RowsOf(t, c))
        /\ \A i \in 1..Len(pending[c]) :
              pending[c][i].transfer = t => pending[c][i].processed

SentOnce(t) == Cardinality(OutgoingRows(t)) = 1

NothingLost(t) == \A r \in lost : pending[r[1]][r[2]].transfer # t

Outcome(t) ==
    CASE fate[t] = "failed"   -> Activity("FailedOnChain", FALSE)
      [] fate[t] = "received" -> Activity("CounterpartyConfirmed", TRUE)
      [] fate[t] = "rejected" -> Activity("CounterpartyRejected", TRUE)
      [] OTHER                -> Activity("CounterpartyRejected", FALSE)

\* The end of a transfer that is refunded on a closed channel is not in any row.
EndIsHeard(t) == fate[t] # "closed"

\* Once every row of a transfer is processed its activity tells what became of
\* it, in whatever order the rows of the two chains arrived and were joined,
\* unless an execution failed between marking a row and committing its write, a
\* repeated block made a second activity (which takes one of the two later rows), or
\* the channel was closed, when the activity is there but stays pending.
ActivityIsTrue ==
    \A t \in Transfers :
        Processed(t) /\ NothingLost(t) /\ SentOnce(t) /\ pc # "commit" =>
            activities[t] =
                << IF EndIsHeard(t) THEN Outcome(t) ELSE Activity("Pending", FALSE) >>

\* A joined activity does not forget: an outcome is never replaced by "Pending"
\* or by another one, and a destination is never removed.
ActivityNeverForgets ==
    [][\A t \in Transfers : \A i \in DOMAIN activities[t] :
          /\ i \in DOMAIN activities'[t]
          /\ activities[t][i].dest => activities'[t][i].dest
          /\ activities[t][i].status # "Pending" =>
                activities'[t][i].status = activities[t][i].status]_activities

\* Every transfer is settled in the end, unless a write of it was lost, it was sent
\* twice for the index or its channel was closed.
EventuallySettled ==
    \A t \in Transfers :
        <>(\/ activities[t] = << Outcome(t) >>
           \/ ~EndIsHeard(t) \/ ~NothingLost(t)
           \/ Cardinality(OutgoingRows(t)) > 1)
=============================================================================
