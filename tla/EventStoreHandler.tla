-------------------------- MODULE EventStoreHandler -------------------------
(***************************************************************************)
(* Writing the event store: RDbEventStoreHandler.HandleEvents statement by *)
(* statement (appinterface/eventhandler), the batched insert of the event  *)
(* store (appinterface/event), the one-row status store                    *)
(* (appinterface/rdbstatusstore) and the connection pool they share with   *)
(* the projections, the bridge matcher and the readers of events.          *)
(*                                                                         *)
(* The caller is SyncBlocks: it asks for the last indexed height and then  *)
(* hands over one block after the other; after an error it asks again.     *)
(*                                                                         *)
(* A transaction keeps its connection until Commit or Rollback.  Any other *)
(* statement takes a connection from the pool for its own duration, which  *)
(* is one step here, and waits while there is none.                        *)
(***************************************************************************)
EXTENDS Integers, Sequences, FiniteSets

CONSTANTS
    Batches,      \* INSERT statements of a block (500 events each)
    PoolSize,     \* pool_max_conns
    Projections,  \* clients whose transaction needs its own connection only
    Matchers,     \* clients whose transaction needs a second connection
    MaxHeight,    \* bound: blocks handled
    MaxFaults,    \* bound: failing statements
    MaxCrashes    \* bound: crashes of the process

ASSUME PoolAssumption == PoolSize \in Nat \ {0}
ASSUME ClientsAssumption ==
    /\ IsFiniteSet(Projections) /\ IsFiniteSet(Matchers)
    /\ Projections \cap Matchers = {}
ASSUME BoundsAssumption ==
    MaxHeight \in Nat /\ MaxFaults \in Nat /\ MaxCrashes \in Nat
ASSUME BatchesAssumption == Batches \in Nat \ {0}

VARIABLES
    events,       \* committed rows of the events table, by id
    status,       \* the committed service_status row: NoRow, NilHeight or a height
    txEvents,     \* rows inserted by the open transaction
    txStatus,     \* status set by the open transaction, NoRow if not updated
    pc,           \* the handler: "init", "select", "begin", "insert", "init2",
                  \*   "update", "commit"
    height,       \* blockHeight of the call
    free,         \* connections in the pool
    leaked,       \* connections of transactions nobody will end
    client,       \* a client is "idle", "tx" (transaction open) or "done"
    readNext,     \* a StoreBasedManager's nextEventHeight
    readLast,     \* its latestEventHeight
    seen,         \* the rows GetAllByHeight returned last, by id
    faults,
    crashes

storeVars  == <<events, status>>
txVars     == <<txEvents, txStatus>>
poolVars   == <<free, leaked>>
readVars   == <<readNext, readLast, seen>>
vars == <<storeVars, txVars, pc, height, poolVars, client, readVars, faults, crashes>>

Clients == Projections \cup Matchers

\* The height of a status row that was inserted and never updated, and the status
\* of a table without a row.
NilHeight == -1
NoRow     == -2

Row(h, b) == [height |-> h, batch |-> b]

\* SELECT ... WHERE height = h ORDER BY id: the rows under their ids.
RowsAt(h) ==
    [id \in {i \in 1..Len(events) : events[i].height = h} |-> events[id]]

\* The rows of a block whose predecessors are all in the table.
Block(h) ==
    [id \in (h * Batches + 1)..(h * Batches + Batches) |-> Row(h, id - h * Batches)]

Init ==
    /\ events = << >> /\ status = NoRow
    /\ txEvents = << >> /\ txStatus = NoRow
    /\ pc = "init" /\ height = 0
    /\ free = PoolSize /\ leaked = 0
    /\ client = [c \in Clients |-> "idle"]
    /\ readNext = 0 /\ readLast = NilHeight /\ seen = << >>
    /\ faults = 0 /\ crashes = 0

-----------------------------------------------------------------------------
(* Failures *)

Fault ==
    /\ faults < MaxFaults
    /\ faults' = faults + 1
    /\ UNCHANGED crashes

\* The process dies: every open transaction is rolled back by the database.
Crash ==
    /\ crashes < MaxCrashes
    /\ crashes' = crashes + 1
    /\ txEvents' = << >> /\ txStatus' = NoRow
    /\ pc' = "init" /\ height' = 0
    /\ free' = PoolSize /\ leaked' = 0
    /\ client' = [c \in Clients |-> "idle"]
    /\ readNext' = 0 /\ readLast' = NilHeight /\ seen' = << >>
    /\ UNCHANGED <<storeVars, faults>>

-----------------------------------------------------------------------------
(* GetLastIndexedBlockHeight: lazy init of the status row, then a select. *)

\* RDbStatusStore.init: the row is inserted, outside any transaction, once.
StatusRow == IF status = NoRow THEN NilHeight ELSE status

InitStatus ==
    /\ pc = "init" /\ free > 0
    /\ status' = StatusRow
    /\ pc' = "select"
    /\ UNCHANGED <<events, txVars, height, poolVars, client, readVars, faults, crashes>>

SelectStatus ==
    /\ pc = "select" /\ free > 0
    /\ height' = IF status = NilHeight THEN 0 ELSE status + 1
    /\ pc' = "begin"
    /\ UNCHANGED <<storeVars, txVars, poolVars, client, readVars, faults, crashes>>

\* A statement of GetLastIndexedBlockHeight fails, the row inserted or not.
StatusFail ==
    /\ pc \in {"init", "select"} /\ free > 0
    /\ Fault
    /\ status' \in {status, IF pc = "init" THEN StatusRow ELSE status}
    /\ pc' = "init"
    /\ UNCHANGED <<events, txVars, height, poolVars, client, readVars>>

-----------------------------------------------------------------------------
(* RDbEventStoreHandler.HandleEvents *)

Begin ==
    /\ pc = "begin" /\ free > 0 /\ height <= MaxHeight
    /\ free' = free - 1
    /\ pc' = "insert"
    /\ UNCHANGED <<storeVars, txVars, height, leaked, client, readVars, faults, crashes>>

\* The connection of a transaction that could not begin goes back.
BeginFail ==
    /\ pc = "begin" /\ free > 0
    /\ Fault
    /\ pc' = "init"
    /\ UNCHANGED <<storeVars, txVars, height, poolVars, client, readVars>>

\* Mutant of InsertBatch: the rows are inserted through the store's own handle.
InsertBatchOutsideTx ==
    /\ pc = "insert" /\ Len(txEvents) < Batches
    /\ txEvents' = Append(txEvents, Row(height, Len(txEvents) + 1))
    /\ events' = Append(events, Row(height, Len(txEvents) + 1))
    /\ UNCHANGED <<status, txStatus, pc, height, poolVars, client, readVars, faults,
                   crashes>>

\* One INSERT of InsertAllWithRDbHandle, on the transaction's connection.
InsertBatch ==
    /\ pc = "insert" /\ Len(txEvents) < Batches
    /\ txEvents' = Append(txEvents, Row(height, Len(txEvents) + 1))
    /\ UNCHANGED <<storeVars, txStatus, pc, height, poolVars, client, readVars, faults,
                   crashes>>

InsertedAll ==
    /\ pc = "insert" /\ Len(txEvents) = Batches
    /\ pc' = "init2"
    /\ UNCHANGED <<storeVars, txVars, height, poolVars, client, readVars, faults, crashes>>

\* The lazy init of UpdateLastIndexedBlockHeightWithRDbHandle does not use the
\* transaction: it needs a second connection while the first is held.
InitStatusInTx ==
    /\ pc = "init2" /\ free > 0
    /\ status' = StatusRow
    /\ pc' = "update"
    /\ UNCHANGED <<events, txVars, height, poolVars, client, readVars, faults, crashes>>

UpdateStatus ==
    /\ pc = "update"
    /\ txStatus' = height
    /\ pc' = "commit"
    /\ UNCHANGED <<storeVars, txEvents, height, poolVars, client, readVars, faults, crashes>>

\* An error between Begin and Commit returns without Rollback: the database
\* discards the rows, the pool does not get its connection back.
LeakTransaction ==
    /\ pc \in {"insert", "init2", "update"}
    /\ pc = "init2" => free > 0
    /\ Fault
    /\ leaked' = leaked + 1
    /\ txEvents' = << >> /\ txStatus' = NoRow
    /\ pc' = "init"
    /\ UNCHANGED <<storeVars, height, free, client, readVars>>

\* The transaction's effects become visible, all at once.
Persist ==
    /\ events' = events \o txEvents
    /\ status' = txStatus

\* Mutant of Commit: the connection of a committed transaction is not released.
CommitKeepsConnection ==
    /\ pc = "commit"
    /\ Persist
    /\ txEvents' = << >> /\ txStatus' = NoRow
    /\ leaked' = leaked + 1
    /\ height' = height + 1
    /\ pc' \in {"begin", "init"}
    /\ UNCHANGED <<free, client, readVars, faults, crashes>>

\* Commit releases the connection; the caller hands over the next block of the
\* window or asks for the last height again.
Commit ==
    /\ pc = "commit"
    /\ Persist
    /\ txEvents' = << >> /\ txStatus' = NoRow
    /\ free' = free + 1
    /\ height' = height + 1
    /\ pc' \in {"begin", "init"}
    /\ UNCHANGED <<leaked, client, readVars, faults, crashes>>

\* Mutant of CommitFail: the caller goes on with the height it has in memory.
CommitFailRetriesHeight ==
    /\ pc = "commit"
    /\ Fault
    /\ Persist \/ UNCHANGED storeVars
    /\ txEvents' = << >> /\ txStatus' = NoRow
    /\ free' = free + 1
    /\ pc' = "begin"
    /\ UNCHANGED <<height, leaked, client, readVars>>

\* The commit fails, or was applied and its reply lost; the connection is
\* released either way.
CommitFail ==
    /\ pc = "commit"
    /\ Fault
    /\ Persist \/ UNCHANGED storeVars
    /\ txEvents' = << >> /\ txStatus' = NoRow
    /\ free' = free + 1
    /\ pc' = "init"
    /\ UNCHANGED <<height, leaked, client, readVars>>

-----------------------------------------------------------------------------
(* The other users of the pool *)

\* A projection's or the matcher's transaction.
ClientBegin(c) ==
    /\ client[c] = "idle" /\ free > 0
    /\ free' = free - 1
    /\ client' = [client EXCEPT ![c] = "tx"]
    /\ UNCHANGED <<storeVars, txVars, pc, height, leaked, readVars, faults, crashes>>

\* UpdateToProcessed runs outside the matcher's transaction.
MatcherSecond(c) ==
    /\ c \in Matchers /\ client[c] = "tx" /\ free > 0
    /\ client' = [client EXCEPT ![c] = "done"]
    /\ UNCHANGED <<storeVars, txVars, pc, height, poolVars, readVars, faults, crashes>>

\* Commit, or the deferred Rollback of a handler that returns early.
ClientEnd(c) ==
    /\ client[c] = IF c \in Matchers THEN "done" ELSE "tx"
    /\ free' = free + 1
    /\ client' = [client EXCEPT ![c] = "idle"]
    /\ UNCHANGED <<storeVars, txVars, pc, height, leaked, readVars, faults, crashes>>

\* GetLatestHeight of the event store: MAX(height).
ReadLatest ==
    /\ free > 0 /\ events # << >>
    /\ readLast' = events[Len(events)].height
    /\ UNCHANGED <<storeVars, txVars, pc, height, poolVars, client, readNext, seen,
                   faults, crashes>>

\* GetAllByHeight: the rows of the height, by id.
ReadAllByHeight ==
    /\ free > 0 /\ readLast # NilHeight
    /\ readNext <= readLast
    /\ seen' = RowsAt(readNext)
    /\ readNext' = readNext + 1
    /\ UNCHANGED <<storeVars, txVars, pc, height, poolVars, client, readLast, faults,
                   crashes>>

-----------------------------------------------------------------------------

Handler == \/ InitStatus \/ SelectStatus \/ Begin \/ InsertBatch \/ InsertedAll
           \/ InitStatusInTx \/ UpdateStatus \/ Commit
Failure == StatusFail \/ BeginFail \/ LeakTransaction \/ CommitFail \/ Crash
Others  == \/ \E c \in Clients : ClientBegin(c) \/ MatcherSecond(c) \/ ClientEnd(c)
           \/ ReadLatest \/ ReadAllByHeight

Next == Handler \/ Failure \/ Others

Spec == Init /\ [][Next]_vars

-----------------------------------------------------------------------------
(* Properties *)

\* Blocks of the index, read off the tables.
Indexed == IF status \in {NilHeight, NoRow} THEN 0 ELSE status + 1

\* The events table holds every batch of every block up to the status, each
\* once and in order, and nothing of any other block: the events of a block and
\* the status change together (HandleEvents).
EventsMatchStatus ==
    /\ Len(events) = Indexed * Batches
    /\ \A h \in 0..(Indexed - 1) : RowsAt(h) = Block(h)

\* A projection that replays the store sees all events of a block or waits for
\* it; it never takes the first batches for the whole block.
ReadersSeeWholeBlocks == readNext > 0 => seen = Block(readNext - 1)

\* While the pool is empty some holder can finish without a second connection,
\* so that no set of waiters holds on to every connection: true as long as
\* failed inserts have left a connection more than there are transactions that
\* need two.
PoolNotWedged ==
    free = 0 =>
        \/ pc \in {"insert", "update", "commit"}
        \/ \E c \in Clients : client[c] = (IF c \in Matchers THEN "done" ELSE "tx")

\* A failed insert rolls its transaction back (the comment of
\* InsertAllWithRDbHandle).
FailedInsertRollsBack == leaked = 0
=============================================================================
