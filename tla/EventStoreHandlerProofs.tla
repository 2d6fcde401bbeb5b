---------------------- MODULE EventStoreHandlerProofs -----------------------
(***************************************************************************)
(* Proofs about EventStoreHandler, for every number of batches, clients,   *)
(* blocks, failures and crashes: the two tables change together, a reader  *)
(* sees whole blocks, and how many connections the pool needs.             *)
(***************************************************************************)
EXTENDS EventStoreHandler, SequenceTheorems, FiniteSetTheorems, TLAPS

-----------------------------------------------------------------------------
(* The inductive invariant *)

RowType == [height : Nat, batch : Nat]

Phases == {"init", "select", "begin", "insert", "init2", "update", "commit"}

TypeOK ==
    /\ events \in Seq(RowType) /\ txEvents \in Seq(RowType)
    /\ status \in Int /\ status >= NoRow /\ txStatus \in Int
    /\ pc \in Phases /\ height \in Nat
    /\ readNext \in Nat /\ readLast \in Int /\ readLast >= NilHeight
    /\ faults \in Nat /\ crashes \in Nat

\* The open transaction holds the first batches of the next block, and all of them
\* once the status is to be updated.
TransactionOK ==
    /\ pc \in {"init", "select", "begin"} => txEvents = << >>
    /\ \A i \in 1..Len(txEvents) : txEvents[i] = Row(height, i)
    /\ Len(txEvents) <= Batches
    /\ pc \in {"init2", "update", "commit"} => Len(txEvents) = Batches
    /\ pc \notin {"init", "select"} => height = Indexed
    /\ pc # "init" => status # NoRow
    /\ pc = "commit" => txStatus = height

\* No row belongs to a block above the status.
NoRowAbove == \A i \in 1..Len(events) : events[i].height < Indexed

\* A reader is not ahead of the status.
ReaderOK ==
    /\ readLast < Indexed /\ readNext <= Indexed
    /\ ReadersSeeWholeBlocks

\* The clients that hold a connection.
Holders == {c \in Clients : client[c] # "idle"}

HandlerHolds == IF pc \in {"insert", "init2", "update", "commit"} THEN 1 ELSE 0

\* Every connection is free, lost, or held by a transaction that is open.
PoolOK ==
    /\ free \in Nat /\ leaked \in Nat
    /\ client \in [Clients -> {"idle", "tx", "done"}]
    /\ \A c \in Clients : client[c] = "done" => c \in Matchers
    /\ free + leaked + HandlerHolds + Cardinality(Holders) = PoolSize
    /\ faults \in Nat /\ leaked <= faults /\ faults <= MaxFaults

StoreInv == TypeOK /\ TransactionOK /\ EventsMatchStatus /\ NoRowAbove /\ ReaderOK

-----------------------------------------------------------------------------
(* Arithmetic of ids *)

LEMMA NextBlockOfIds ==
    ASSUME NEW n \in Nat
    PROVE  n * Batches \in Nat /\ (n + 1) * Batches = n * Batches + Batches
  BY BatchesAssumption

LEMMA IndexedType == TypeOK => Indexed \in Nat
  BY DEF TypeOK, Indexed, NilHeight, NoRow

\* What depends on the tables only does not change with the rest.
LEMMA TablesDecide ==
    ASSUME StoreInv, UNCHANGED events, Indexed' = Indexed
    PROVE  /\ EventsMatchStatus' /\ NoRowAbove'
           /\ \A h : RowsAt(h)' = RowsAt(h)
  <1>1. \A h : RowsAt(h)' = RowsAt(h)
    BY DEF RowsAt
  <1>2. \A h : Block(h)' = Block(h)
    BY DEF Block
  <1>3. EventsMatchStatus'
    BY <1>1, <1>2 DEF StoreInv, EventsMatchStatus
  <1> QED
    BY <1>1, <1>3 DEF StoreInv, NoRowAbove

-----------------------------------------------------------------------------
(* The tables *)

\* A commit adds the block after the last one of the index, whole.
LEMMA PersistAddsBlock ==
    ASSUME StoreInv, pc = "commit", Persist
    PROVE  /\ events' \in Seq(RowType) /\ status' = height
           /\ Indexed' = Indexed + 1
           /\ EventsMatchStatus' /\ NoRowAbove'
  <1>0. PICK n \in Nat : n = Indexed
    BY IndexedType DEF StoreInv
  <1>00. PICK base \in Nat : base = n * Batches
    BY NextBlockOfIds
  <1>1. /\ height = n /\ txStatus = n
        /\ events \in Seq(RowType) /\ txEvents \in Seq(RowType)
        /\ Len(txEvents) = Batches
        /\ \A i \in 1..Batches : txEvents[i] = Row(n, i)
    BY <1>0 DEF StoreInv, TypeOK, TransactionOK
  <1>2. (n + 1) * Batches = base + Batches /\ Len(events) = base
    BY <1>0, <1>00, NextBlockOfIds DEF StoreInv, EventsMatchStatus
  <1>3. /\ events' \in Seq(RowType)
        /\ Len(events') = base + Batches
        /\ \A i \in 1..base : events'[i] = events[i]
        /\ \A i \in (base + 1)..(base + Batches) : events'[i] = Row(n, i - base)
    <2>1. /\ events' \in Seq(RowType)
          /\ Len(events') = base + Batches
          /\ \A i \in 1..(base + Batches) :
                 events'[i] = IF i <= base THEN events[i] ELSE txEvents[i - base]
      BY <1>1, <1>2, ConcatProperties DEF Persist
    <2>2. \A i \in 1..base : events'[i] = events[i]
      BY <2>1, BatchesAssumption
    <2>3. ASSUME NEW i \in (base + 1)..(base + Batches)
          PROVE  events'[i] = Row(n, i - base)
      <3>1. i \in 1..(base + Batches) /\ ~(i <= base) /\ i - base \in 1..Batches
        BY BatchesAssumption
      <3> QED
        BY <1>1, <2>1, <3>1
    <2> QED
      BY <2>1, <2>2, <2>3
  <1>4. status' = n /\ Indexed' = n + 1
    BY <1>1 DEF Persist, Indexed, NilHeight, NoRow
  <1>5. \A i \in 1..base : events[i].height < n
    BY <1>0, <1>2 DEF StoreInv, NoRowAbove
  <1>6. \A i \in (base + 1)..(base + Batches) : events'[i].height = n
    <2>1. \A i \in (base + 1)..(base + Batches) : Row(n, i - base).height = n
      BY DEF Row
    <2> QED
      BY <1>3, <2>1
  <1>61. \A i \in 1..base : events[i].height \in Nat
    <2>1. \A i \in 1..base : events[i] \in RowType
      BY <1>1, <1>2, ElementOfSeq
    <2> QED
      BY <2>1 DEF RowType
  <1>7. NoRowAbove'
    <2> SUFFICES ASSUME NEW i \in 1..(base + Batches) PROVE events'[i].height < n + 1
      BY <1>3, <1>4 DEF NoRowAbove
    <2>1. CASE i \in 1..base
      <3>1. events'[i] = events[i] /\ events[i].height < n
        BY <1>3, <1>5, <2>1
      <3> QED
        BY <2>1, <1>61, <3>1
    <2>2. CASE i \in (base + 1)..(base + Batches)
      BY <1>1, <1>6, <2>2
    <2> QED
      BY <1>2, <2>1, <2>2, BatchesAssumption
  <1>8. ASSUME NEW h \in 0..(n - 1) PROVE RowsAt(h)' = Block(h)'
    <2>1. RowsAt(h) = Block(h)
      BY <1>0, <1>8 DEF StoreInv, EventsMatchStatus
    <2>2. {i \in 1..Len(events') : events'[i].height = h}
            = {i \in 1..Len(events) : events[i].height = h}
      <3>1. \A i \in (base + 1)..(base + Batches) : events'[i].height # h
        BY <1>1, <1>6, <1>8
      <3>2. 1..Len(events') = 1..base \cup (base + 1)..(base + Batches)
        BY <1>2, <1>3, BatchesAssumption
      <3> QED
        BY <1>2, <1>3, <3>1, <3>2
    <2>3. \A i \in {j \in 1..Len(events) : events[j].height = h} : events'[i] = events[i]
      BY <1>2, <1>3
    <2>4. RowsAt(h)' = RowsAt(h)
      BY <2>2, <2>3 DEF RowsAt
    <2> QED
      BY <2>1, <2>4 DEF Block
  <1>9. RowsAt(n)' = Block(n)'
    <2>1. {i \in 1..Len(events') : events'[i].height = n} = (base + 1)..(base + Batches)
      <3>1. \A i \in 1..base : events'[i].height # n
        <4> SUFFICES ASSUME NEW i \in 1..base PROVE events'[i].height # n
          OBVIOUS
        <4>1. events'[i].height < n
          BY <1>3, <1>5
        <4>2. events[i].height \in Nat /\ events'[i] = events[i]
          BY <1>3, <1>61
        <4> QED
          BY <1>1, <4>1, <4>2
      <3>2. 1..Len(events') = 1..base \cup (base + 1)..(base + Batches)
        BY <1>2, <1>3, BatchesAssumption
      <3> QED
        BY <1>6, <3>1, <3>2
    <2>2. \A i \in (base + 1)..(base + Batches) : events'[i] = Row(n, i - base)
      BY <1>3
    <2>3. [id \in {i \in 1..Len(events') : events'[i].height = n} |-> events'[id]]
            = [id \in (base + 1)..(base + Batches) |-> Row(n, id - base)]
      BY <2>1, <2>2
    <2>4. RowsAt(n)' = [id \in {i \in 1..Len(events') : events'[i].height = n} |-> events'[id]]
      BY DEF RowsAt
    <2>5. Block(n) = [id \in (base + 1)..(base + Batches) |-> Row(n, id - base)]
      BY <1>00 DEF Block
    <2> QED
      BY <2>3, <2>4, <2>5
  <1>10. EventsMatchStatus'
    <2>1. \A h \in 0..n : h \in 0..(n - 1) \/ h = n
      BY <1>1
    <2>2. Indexed' - 1 = n /\ Len(events') = Indexed' * Batches
      BY <1>2, <1>3, <1>4
    <2> QED
      BY <1>8, <1>9, <2>1, <2>2 DEF EventsMatchStatus
  <1> QED
    BY <1>0, <1>1, <1>3, <1>4, <1>7, <1>10

\* A block that the index has does not change when a block is added, and a reader
\* of the rows of one height reads that block.
LEMMA ReaderReadsBlock ==
    ASSUME StoreInv, ReadAllByHeight
    PROVE  ReaderOK'
  <1>0. PICK k \in Nat : k = readNext
    BY DEF StoreInv, TypeOK
  <1>1. /\ readLast \in Int /\ readLast < Indexed /\ Indexed \in Nat
        /\ k <= readLast /\ readNext' = k + 1 /\ readLast' = readLast
        /\ Indexed' = Indexed
    BY <1>0, IndexedType DEF StoreInv, TypeOK, ReaderOK, ReadAllByHeight, Indexed, storeVars
  <1>2. seen' = Block(k)
    BY <1>0, <1>1 DEF StoreInv, EventsMatchStatus, ReadAllByHeight
  <1>3. Block(k)' = Block(k) /\ (readNext - 1)' = k
    BY <1>1 DEF Block
  <1> QED
    BY <1>1, <1>2, <1>3 DEF ReaderOK, ReadersSeeWholeBlocks, Block

\* A reader that does not read is not disturbed by a longer index.
LEMMA ReaderUndisturbed ==
    ASSUME StoreInv, UNCHANGED readVars, Indexed' \in {Indexed, Indexed + 1}
    PROVE  ReaderOK'
  <1>1. Indexed \in Nat /\ readLast \in Int /\ readNext \in Nat
    BY IndexedType DEF StoreInv, TypeOK
  <1> QED
    BY <1>1 DEF StoreInv, ReaderOK, ReadersSeeWholeBlocks, readVars, Block

\* Every action keeps the tables, the transaction and the readers right.
LEMMA StoreInvStep ==
    ASSUME StoreInv, [Next]_vars
    PROVE  StoreInv'
  <1> USE BatchesAssumption DEF Phases
  <1>0. Indexed \in Nat
    BY IndexedType DEF StoreInv
  <1>1. CASE Commit \/ (CommitFail /\ Persist)
    <2>1. pc = "commit" /\ Persist /\ UNCHANGED readVars /\ txEvents' = << >>
          /\ txStatus' = NoRow
      BY <1>1 DEF Commit, CommitFail
    <2>2. /\ events' \in Seq(RowType) /\ status' = height
          /\ Indexed' = Indexed + 1 /\ EventsMatchStatus' /\ NoRowAbove'
      BY <2>1, PersistAddsBlock
    <2>3. ReaderOK'
      BY <2>1, <2>2, ReaderUndisturbed
    <2>4. height = Indexed /\ << >> \in Seq(RowType) /\ Len(<< >>) = 0
      BY <2>1 DEF StoreInv, TransactionOK
    <2>5. /\ pc' \in {"begin", "init"} /\ height' \in Nat
          /\ pc' = "begin" => height' = height + 1
          /\ faults' \in Nat /\ crashes' \in Nat
      BY <1>1 DEF Commit, CommitFail, Fault, StoreInv, TypeOK
    <2>6. TypeOK'
      BY <2>1, <2>2, <2>4, <2>5 DEF StoreInv, TypeOK, readVars, NoRow, NilHeight
    <2>7. TransactionOK'
      BY <1>0, <2>1, <2>2, <2>4, <2>5 DEF StoreInv, TypeOK, TransactionOK, NoRow
    <2> QED
      BY <2>2, <2>3, <2>6, <2>7 DEF StoreInv
  <1>2. CASE ReadLatest \/ ReadAllByHeight
    <2>1. /\ UNCHANGED <<storeVars, txVars, pc, height, faults, crashes>>
          /\ Indexed' = Indexed
      BY <1>2 DEF ReadLatest, ReadAllByHeight, storeVars, Indexed
    <2>2. EventsMatchStatus' /\ NoRowAbove'
      BY <2>1, TablesDecide DEF storeVars
    <2>3. TransactionOK'
      BY <2>1 DEF StoreInv, TransactionOK, storeVars, txVars
    <2>4. CASE ReadLatest
      <3>1. Len(events) \in 1..Len(events) /\ events \in Seq(RowType)
        BY <2>4 DEF StoreInv, TypeOK, ReadLatest
      <3>2. events[Len(events)] \in RowType /\ events[Len(events)].height < Indexed
        BY <3>1, ElementOfSeq DEF StoreInv, NoRowAbove
      <3>3. /\ readLast' \in Nat /\ readLast' < Indexed
            /\ readNext' = readNext /\ seen' = seen
        BY <2>4, <3>2 DEF ReadLatest, RowType
      <3>4. ReaderOK'
        BY <2>1, <3>3 DEF StoreInv, ReaderOK, ReadersSeeWholeBlocks, Block
      <3>5. TypeOK'
        BY <2>1, <3>3 DEF StoreInv, TypeOK, storeVars, txVars, NilHeight
      <3> QED
        BY <2>2, <2>3, <3>4, <3>5 DEF StoreInv
    <2>5. CASE ReadAllByHeight
      <3>1. ReaderOK'
        BY <2>5, ReaderReadsBlock
      <3>2. TypeOK'
        BY <2>1, <2>5 DEF StoreInv, TypeOK, storeVars, txVars, ReadAllByHeight
      <3> QED
        BY <2>2, <2>3, <3>1, <3>2 DEF StoreInv
    <2> QED
      BY <1>2, <2>4, <2>5
  <1>3. CASE \/ InitStatus \/ SelectStatus \/ StatusFail \/ Begin \/ BeginFail
             \/ InsertBatch \/ InsertedAll \/ InitStatusInTx \/ UpdateStatus
             \/ LeakTransaction \/ (CommitFail /\ UNCHANGED storeVars)
             \/ (\E c \in Clients : ClientBegin(c) \/ MatcherSecond(c) \/ ClientEnd(c))
             \/ UNCHANGED vars
    <2>1. UNCHANGED <<events, readVars>> /\ (status' = status \/ status' = StatusRow)
      BY <1>3 DEF InitStatus, SelectStatus, StatusFail, Begin, BeginFail, InsertBatch,
                  InsertedAll, InitStatusInTx, UpdateStatus, LeakTransaction, CommitFail,
                  ClientBegin, MatcherSecond, ClientEnd, vars, storeVars
    <2>2. Indexed' = Indexed /\ (status # NoRow => status' = status)
      BY <2>1 DEF Indexed, StatusRow, NoRow, NilHeight
    <2>3. EventsMatchStatus' /\ NoRowAbove'
      BY <2>1, <2>2, TablesDecide
    <2>4. ReaderOK'
      BY <2>1, <2>2, ReaderUndisturbed
    <2>5. TypeOK' /\ TransactionOK'
      <3> USE DEF StoreInv, TypeOK, TransactionOK, StatusRow, NoRow, NilHeight
      <3>0. << >> \in Seq(RowType) /\ Len(<< >>) = 0
        OBVIOUS
      <3>1. CASE InitStatus
        BY <2>1, <2>2, <3>1 DEF InitStatus, txVars, readVars
      <3>2. CASE SelectStatus
        BY <2>1, <2>2, <3>2, <1>0 DEF SelectStatus, txVars, readVars, storeVars, Indexed
      <3>3. CASE StatusFail
        BY <2>1, <2>2, <3>3 DEF StatusFail, Fault, txVars, readVars
      <3>4. CASE Begin
        BY <2>1, <2>2, <3>0, <3>4 DEF Begin, txVars, readVars, storeVars
      <3>5. CASE BeginFail
        BY <2>1, <2>2, <3>5 DEF BeginFail, Fault, txVars, readVars, storeVars
      <3>6. CASE InsertBatch
        <4>1. Row(height, Len(txEvents) + 1) \in RowType
          BY DEF Row, RowType
        <4>2. /\ txEvents' \in Seq(RowType) /\ Len(txEvents') = Len(txEvents) + 1
              /\ \A i \in 1..Len(txEvents) : txEvents'[i] = txEvents[i]
              /\ txEvents'[Len(txEvents) + 1] = Row(height, Len(txEvents) + 1)
          BY <3>6, <4>1 DEF InsertBatch
        <4>3. \A i \in 1..Len(txEvents') : txEvents'[i] = Row(height, i)
          BY <4>2
        <4> QED
          BY <2>1, <2>2, <3>6, <4>2, <4>3 DEF InsertBatch, readVars, storeVars
      <3>7. CASE InsertedAll
        BY <2>1, <2>2, <3>7 DEF InsertedAll, txVars, readVars, storeVars
      <3>8. CASE InitStatusInTx
        BY <2>1, <2>2, <3>8 DEF InitStatusInTx, txVars, readVars
      <3>9. CASE UpdateStatus
        BY <2>1, <2>2, <3>9 DEF UpdateStatus, readVars, storeVars
      <3>10. CASE LeakTransaction
        BY <2>1, <2>2, <3>0, <3>10 DEF LeakTransaction, Fault, readVars, storeVars
      <3>11. CASE CommitFail /\ UNCHANGED storeVars
        BY <2>1, <2>2, <3>0, <3>11 DEF CommitFail, Fault, readVars, storeVars
      <3>12. CASE \E c \in Clients : ClientBegin(c) \/ MatcherSecond(c) \/ ClientEnd(c)
        BY <2>1, <2>2, <3>12 DEF ClientBegin, MatcherSecond, ClientEnd, txVars, readVars,
                                 storeVars
      <3>13. CASE UNCHANGED vars
        BY <2>1, <2>2, <3>13 DEF vars, txVars, readVars, storeVars
      <3> QED
        BY <1>3, <3>1, <3>2, <3>3, <3>4, <3>5, <3>6, <3>7, <3>8, <3>9, <3>10, <3>11,
           <3>12, <3>13
    <2> QED
      BY <2>3, <2>4, <2>5 DEF StoreInv
  <1>4. CASE Crash
    <2>1. UNCHANGED storeVars /\ Indexed' = Indexed
      BY <1>4 DEF Crash, storeVars, Indexed
    <2>2. EventsMatchStatus' /\ NoRowAbove'
      BY <2>1, TablesDecide DEF storeVars
    <2>3. << >> \in Seq(RowType) /\ Len(<< >>) = 0
      OBVIOUS
    <2>4. TypeOK' /\ TransactionOK' /\ ReaderOK'
      BY <1>0, <1>4, <2>1, <2>3 DEF Crash, storeVars, StoreInv, TypeOK, TransactionOK,
             ReaderOK, ReadersSeeWholeBlocks, NoRow, NilHeight
    <2> QED
      BY <2>2, <2>4 DEF StoreInv
  <1>5. CommitFail => Persist \/ UNCHANGED storeVars
    BY DEF CommitFail
  <1> QED
    BY <1>1, <1>2, <1>3, <1>4, <1>5 DEF Next, Handler, Failure, Others

LEMMA StoreInvInit == Init => StoreInv
  <1> SUFFICES ASSUME Init PROVE StoreInv
    OBVIOUS
  <1>1. /\ events = << >> /\ txEvents = << >> /\ Len(<< >>) = 0 /\ << >> \in Seq(RowType)
        /\ Indexed = 0
    BY DEF Init, Indexed
  <1>2. EventsMatchStatus
    BY <1>1, BatchesAssumption DEF EventsMatchStatus
  <1>3. TypeOK /\ TransactionOK /\ NoRowAbove /\ ReaderOK
    BY <1>1, BatchesAssumption
       DEF Init, TypeOK, Phases, TransactionOK, NoRowAbove, ReaderOK, ReadersSeeWholeBlocks,
           NoRow, NilHeight
  <1> QED
    BY <1>2, <1>3 DEF StoreInv

THEOREM StoreInvariance == Spec => []StoreInv
  BY StoreInvInit, StoreInvStep, PTL DEF Spec

\* The events table and the status row change together, whatever fails, is lost or
\* crashes in between (RDbEventStoreHandler.HandleEvents).
THEOREM TablesAgree == Spec => []EventsMatchStatus
  <1>1. StoreInv => EventsMatchStatus
    BY DEF StoreInv
  <1> QED
    BY <1>1, StoreInvariance, PTL

\* A reader of the events of a height sees all of them (RDbStore.GetAllByHeight).
THEOREM ReadersNeverSeeHalf == Spec => []ReadersSeeWholeBlocks
  <1>1. StoreInv => ReadersSeeWholeBlocks
    BY DEF StoreInv, ReaderOK
  <1> QED
    BY <1>1, StoreInvariance, PTL

-----------------------------------------------------------------------------
(* The pool *)

\* A client takes a connection, or gives one back.
LEMMA HoldersCount ==
    ASSUME PoolOK
    PROVE  /\ IsFiniteSet(Holders) /\ Cardinality(Holders) \in Nat
           /\ \A c \in Clients \ Holders :
                  Cardinality(Holders \cup {c}) = Cardinality(Holders) + 1
           /\ \A c \in Holders : Cardinality(Holders \ {c}) = Cardinality(Holders) - 1
  <1>1. IsFiniteSet(Clients)
    BY ClientsAssumption, FS_Union DEF Clients
  <1>2. IsFiniteSet(Holders) /\ Cardinality(Holders) \in Nat
    BY <1>1, FS_Subset, FS_CardinalityType DEF Holders
  <1>3. ASSUME NEW c \in Clients \ Holders
        PROVE  Cardinality(Holders \cup {c}) = Cardinality(Holders) + 1
    BY <1>2, FS_AddElement
  <1>4. ASSUME NEW c \in Holders
        PROVE  Cardinality(Holders \ {c}) = Cardinality(Holders) - 1
    BY <1>2, FS_RemoveElement
  <1> QED
    BY <1>2, <1>3, <1>4

\* Nobody ever loses a connection but by a failed statement of the handler.
LEMMA PoolOKStep ==
    ASSUME TypeOK, PoolOK, [Next]_vars
    PROVE  PoolOK'
  <1> USE BoundsAssumption, PoolAssumption
  <1>0. Cardinality(Holders) \in Nat
    BY HoldersCount
  <1>1. ASSUME client' = client
        PROVE  Holders' = Holders /\ Cardinality(Holders)' = Cardinality(Holders)
    BY <1>1 DEF Holders
  <1>2. CASE \/ InitStatus \/ SelectStatus \/ StatusFail \/ BeginFail \/ InsertBatch
             \/ InsertedAll \/ InitStatusInTx \/ UpdateStatus \/ ReadLatest
             \/ ReadAllByHeight \/ UNCHANGED vars
    <2>1. UNCHANGED <<free, leaked, client>> /\ HandlerHolds' = HandlerHolds
      BY <1>2 DEF InitStatus, SelectStatus, StatusFail, BeginFail, InsertBatch, InsertedAll,
                  InitStatusInTx, UpdateStatus, ReadLatest, ReadAllByHeight, vars, poolVars,
                  HandlerHolds
    <2>2. faults' = faults \/ (faults < MaxFaults /\ faults' = faults + 1)
      BY <1>2 DEF InitStatus, SelectStatus, StatusFail, BeginFail, InsertBatch, InsertedAll,
                  InitStatusInTx, UpdateStatus, ReadLatest, ReadAllByHeight, vars, Fault
    <2> QED
      BY <1>1, <2>1, <2>2 DEF PoolOK, TypeOK
  <1>3. CASE Begin \/ Commit \/ CommitFail \/ LeakTransaction
    <2>1. client' = client
      BY <1>3 DEF Begin, Commit, CommitFail, LeakTransaction
    <2>2. faults' = faults \/ (faults < MaxFaults /\ faults' = faults + 1)
      BY <1>3 DEF Begin, Commit, CommitFail, LeakTransaction, Fault
    <2>3. /\ free' \in Nat /\ leaked' \in Nat
          /\ free' + leaked' + HandlerHolds' = free + leaked + HandlerHolds
          /\ leaked' = leaked \/ (leaked' = leaked + 1 /\ faults' = faults + 1)
      <3>1. CASE Begin
        BY <3>1 DEF Begin, HandlerHolds, PoolOK
      <3>2. CASE Commit \/ CommitFail
        BY <3>2 DEF Commit, CommitFail, HandlerHolds, PoolOK
      <3>3. CASE LeakTransaction
        BY <3>3 DEF LeakTransaction, Fault, HandlerHolds, PoolOK
      <3> QED
        BY <1>3, <3>1, <3>2, <3>3
    <2>4. Cardinality(Holders)' = Cardinality(Holders)
      BY <1>1, <2>1
    <2>5. HandlerHolds \in Nat /\ HandlerHolds' \in Nat
      BY DEF HandlerHolds
    <2>6. free' + leaked' + HandlerHolds' + Cardinality(Holders)' = PoolSize
      BY <1>0, <2>3, <2>4, <2>5 DEF PoolOK
    <2>7. faults' \in Nat /\ leaked' <= faults' /\ faults' <= MaxFaults
      BY <2>2, <2>3 DEF PoolOK, TypeOK
    <2> QED
      BY <2>1, <2>3, <2>6, <2>7 DEF PoolOK
  <1>4. ASSUME NEW c \in Clients, ClientBegin(c) PROVE PoolOK'
    <2>1. /\ client[c] = "idle" /\ free > 0 /\ free' = free - 1 /\ leaked' = leaked
          /\ client' = [client EXCEPT ![c] = "tx"]
          /\ faults' = faults /\ HandlerHolds' = HandlerHolds
      BY <1>4 DEF ClientBegin, HandlerHolds
    <2>2. Holders' = Holders \cup {c} /\ c \in Clients \ Holders
      BY <2>1 DEF Holders, PoolOK
    <2>3. Cardinality(Holders)' = Cardinality(Holders) + 1
      BY <2>2, HoldersCount
    <2> QED
      BY <1>0, <2>1, <2>3 DEF PoolOK, HandlerHolds
  <1>5. ASSUME NEW c \in Clients, MatcherSecond(c) PROVE PoolOK'
    <2>1. /\ c \in Matchers /\ client[c] = "tx" /\ UNCHANGED <<free, leaked, faults>>
          /\ client' = [client EXCEPT ![c] = "done"] /\ HandlerHolds' = HandlerHolds
      BY <1>5 DEF MatcherSecond, HandlerHolds, poolVars
    <2>2. Holders' = Holders
      BY <2>1 DEF Holders, PoolOK
    <2> QED
      BY <1>0, <2>1, <2>2 DEF PoolOK, HandlerHolds
  <1>6. ASSUME NEW c \in Clients, ClientEnd(c) PROVE PoolOK'
    <2>1. /\ client[c] \in {"tx", "done"} /\ free' = free + 1 /\ leaked' = leaked
          /\ client' = [client EXCEPT ![c] = "idle"]
          /\ faults' = faults /\ HandlerHolds' = HandlerHolds
      BY <1>6 DEF ClientEnd, HandlerHolds
    <2>2. Holders' = Holders \ {c} /\ c \in Holders
      BY <2>1 DEF Holders, PoolOK
    <2>3. Cardinality(Holders)' = Cardinality(Holders) - 1
      BY <2>2, HoldersCount
    <2> QED
      BY <1>0, <2>1, <2>3 DEF PoolOK, HandlerHolds
  <1>7. CASE Crash
    <2>1. Holders' = {} /\ HandlerHolds' = 0
      BY <1>7 DEF Crash, Holders, HandlerHolds
    <2>2. Cardinality(Holders)' = 0
      BY <2>1, FS_EmptySet
    <2> QED
      BY <1>7, <2>1, <2>2 DEF Crash, PoolOK, TypeOK
  <1> QED
    BY <1>2, <1>3, <1>4, <1>5, <1>6, <1>7 DEF Next, Handler, Failure, Others

LEMMA PoolOKInit == Init => PoolOK
  <1> SUFFICES ASSUME Init PROVE PoolOK
    OBVIOUS
  <1>1. Holders = {} /\ HandlerHolds = 0
    BY DEF Init, Holders, HandlerHolds
  <1>2. Cardinality(Holders) = 0
    BY <1>1, FS_EmptySet
  <1> QED
    BY <1>1, <1>2, PoolAssumption, BoundsAssumption DEF Init, PoolOK

THEOREM PoolInvariance == Spec => []PoolOK
  <1>1. StoreInv /\ PoolOK /\ [Next]_vars => PoolOK'
    BY PoolOKStep DEF StoreInv
  <1> QED
    BY <1>1, PoolOKInit, StoreInvariance, PTL DEF Spec

\* How large the pool has to be: with a connection for every failing statement, one
\* for the handler's transaction, one for each client that needs a second, and one
\* more, somebody can always go on (pool_max_conns, LeakTransaction,
\* UpdateToProcessed).
THEOREM PoolSizeSuffices ==
    ASSUME PoolSize > MaxFaults + 1 + Cardinality(Matchers)
    PROVE  Spec => []PoolNotWedged
  <1>1. PoolOK => PoolNotWedged
    <2> SUFFICES ASSUME PoolOK, free = 0, pc \notin {"insert", "update", "commit"},
                        \A c \in Clients :
                            client[c] # (IF c \in Matchers THEN "done" ELSE "tx")
                 PROVE  FALSE
      BY DEF PoolNotWedged
    <2>1. Holders \subseteq Matchers
      BY ClientsAssumption DEF Holders, PoolOK, Clients
    <2>2. /\ Cardinality(Holders) <= Cardinality(Matchers)
          /\ Cardinality(Holders) \in Nat /\ Cardinality(Matchers) \in Nat
      BY <2>1, ClientsAssumption, FS_Subset, FS_CardinalityType
    <2>3. HandlerHolds \in {0, 1}
      BY DEF HandlerHolds
    <2>4. /\ leaked \in Nat /\ leaked <= MaxFaults
          /\ 0 + leaked + HandlerHolds + Cardinality(Holders) = PoolSize
      BY BoundsAssumption DEF PoolOK
    <2> QED
      BY <2>2, <2>3, <2>4, BoundsAssumption, PoolAssumption
  <1> QED
    BY <1>1, PoolInvariance, PTL

=============================================================================
