---------------------------- MODULE MessageViews ----------------------------
(***************************************************************************)
(* From the blocks of the chain to the lists of the API: every block is    *)
(* parsed and its events stored; six projections (account_message,         *)
(* account_transaction with its data, transaction, block, blockevent and   *)
(* ibc_channel_message) turn the events of a height into rows and totals,  *)
(* each at its own pace and each height in one transaction; a client pages *)
(* through a list, of which a page and the total are two statements with   *)
(* no transaction around them.                                             *)
(*                                                                         *)
(* The chain of an instance is a sequence of blocks from height 1 on.  A   *)
(* transaction may be in it again under its hash, in one block or later:   *)
(* nothing in the tables forbids it.  The genesis brings no rows.          *)
(***************************************************************************)
EXTENDS MessageAccounts, Bags, TLC

CONSTANTS
    Genesis, \* the validators of the genesis, by its transactions and by its staking state
    Chains,  \* the chains of the instance
    Lists,   \* the lists that a client pages through
    Limit    \* the rows of a page

ASSUME LimitAssumption == Limit \in Nat \ {0}

VARIABLES
    chain,       \* the chain that is indexed
    stored,      \* the events of each block stored so far
    panicked,    \* whether parsing ended the process
    lastHandled, \* the height that each projection has handled
    rows,        \* the rows of each view, in the order of their identifiers
    totals,      \* the totals of each view, by identity
    reader       \* a client and the page it is at

vars == <<chain, stored, panicked, lastHandled, rows, totals, reader>>
projections == <<lastHandled, rows, totals>>

Projections ==
    {"AccountMessage", "AccountTransaction", "Transaction", "Block", "BlockEvent", "IBCChannelMessage"}

Views == Projections \cup {"AccountTransactionData"}

Idle == [phase |-> "idle"]

Init ==
    /\ chain \in Chains
    /\ stored = <<>>
    /\ panicked = FALSE
    /\ lastHandled = [p \in Projections |-> 0]
    /\ rows = [v \in Views |-> <<>>]
    /\ totals = [p \in Projections |-> EmptyBag]
    /\ reader = Idle

\* A block that cannot be parsed is never passed: the process ends at it again.
StoreBlock ==
    LET next == Len(stored) + 1
        result == ParseBlockToCommands(chain[next])
    IN  /\ next \in DOMAIN chain /\ ~panicked
        /\ panicked' = result.panic
        /\ stored' = IF result.panic THEN stored ELSE Append(stored, result.cmds)
        /\ UNCHANGED <<chain, projections, reader>>

-----------------------------------------------------------------------------
(* The tables of totals and the commit of a height *)

Counted(identities) == SetToBag(identities)

\* One identity for each of a sequence of sets.
CountedAll(seq) == FoldLeft(LAMBDA bag, identities : bag (+) Counted(identities), EmptyBag, seq)

SetTotal(bag, identity, n) ==
    LET others == BagToSet(bag) \ {identity}
    IN  [k \in others \cup (IF n = 0 THEN {} ELSE {identity}) |-> IF k = identity THEN n ELSE bag[k]]

IncrementTotal(bag, identity, n) == SetTotal(bag, identity, CopiesIn(identity, bag) + n)

Ready(p) == lastHandled[p] < Len(stored)
Height(p) == lastHandled[p] + 1
Events(p) == stored[Height(p)]

Commit(p) ==
    /\ lastHandled' = [lastHandled EXCEPT ![p] = @ + 1]
    /\ UNCHANGED <<chain, stored, panicked, reader>>

-----------------------------------------------------------------------------
(* account_message: a row for each account of a message *)

AccountMessageRecords(events, height) ==
    LET About(event) == IsMsg(event) /\ MessageAccounts(event) # {}
    IN  [i \in DOMAIN SelectSeq(events, About) |->
           LET event == SelectSeq(events, About)[i]
           IN  [accounts |-> MessageAccounts(event), type |-> event.msg, tx |-> event.tx, height |-> height]]

RecordIdentities(record) ==
    {<<a, "-">> : a \in record.accounts} \cup {<<a, record.type>> : a \in record.accounts}

RecordRows(record) ==
    LET accounts == SetToSeq(record.accounts)
    IN  [i \in DOMAIN accounts |-> [account |-> accounts[i], type |-> record.type,
                                    tx |-> record.tx, height |-> record.height]]

HandleAccountMessage ==
    LET p == "AccountMessage"
        records == AccountMessageRecords(Events(p), Height(p))
    IN  /\ Ready(p)
        /\ rows' = [rows EXCEPT ![p] = @ \o FlattenSeq([i \in DOMAIN records |-> RecordRows(records[i])])]
        /\ totals' = [totals EXCEPT ![p] = @ (+) CountedAll([i \in DOMAIN records |-> RecordIdentities(records[i])])]
        /\ Commit(p)

-----------------------------------------------------------------------------
(* account_transaction: a row for each account of a transaction, and its data *)

IsTransaction(event) == event.name \in {"TransactionCreated", "TransactionFailed"}

Transactions(events) == SelectSeq(events, IsTransaction)

MsgsOf(events, tx) == SelectSeq(events, LAMBDA event : IsMsg(event) /\ event.tx = tx)

\* The information of a transaction is made by its own event: a message that comes
\* without, or before it, is added to nil, which ends the process at this height.
AddsToNil(events) ==
    \E i \in DOMAIN events :
        IsMsg(events[i]) /\ ~\E j \in 1..(i - 1) : IsTransaction(events[j]) /\ events[j].tx = events[i].tx

\* The signers and the accounts of the messages, each once, with all of the types.  There
\* is one information of a hash: the last transaction of the block that has it replaces
\* what the others made, and the messages of all of them, which come after, are added.
TransactionInfo(events, hash) ==
    LET made == Last(SelectSeq(Transactions(events), LAMBDA tx : tx.tx = hash))
        msgs == MsgsOf(events, hash)
    IN  [accounts |-> ToSet(made.Senders) \cup UNION {TransactionAccounts(msgs[i]) : i \in DOMAIN msgs},
         types |-> {msgs[i].msg : i \in DOMAIN msgs}, ok |-> made.ok]

\* Mutant of ToRows: an account of which two messages are has two rows.
ToRowsOfMessages(events, hash, height) ==
    LET info == TransactionInfo(events, hash)
        msgs == MsgsOf(events, hash)
    IN  FlattenSeq([i \in DOMAIN msgs |->
            LET accounts == SetToSeq(TransactionAccounts(msgs[i]))
            IN  [k \in DOMAIN accounts |-> [account |-> accounts[k], tx |-> hash, height |-> height,
                                            types |-> {msgs[i].msg}, ok |-> info.ok]]])

ToRows(events, hash, height) ==
    LET info == TransactionInfo(events, hash)
        accounts == SetToSeq(info.accounts)
    IN  [i \in DOMAIN accounts |-> [account |-> accounts[i], tx |-> hash, height |-> height,
                                    types |-> info.types, ok |-> info.ok]]

\* Once for the account, and once more for the account with the memo, if there is one.
TransactionIdentities(events, tx) ==
    LET info == TransactionInfo(events, tx.tx)
        named == info.accounts
                 \cup IF tx.memo = "" THEN {} ELSE {a \o "/" \o tx.memo : a \in info.accounts}
    IN  {<<a, t>> : a \in named, t \in {"-"} \cup info.types}

AccountTransactionDataRow(events, tx, height) ==
    [tx |-> tx.tx, height |-> height, memo |-> tx.memo, ok |-> tx.ok, msgs |-> MsgsOf(events, tx.tx)]

\* The accounts have their rows once for each hash, and their totals once for each
\* transaction.  The order of the rows is a Go map's; nothing depends on it.
HandleAccountTransaction ==
    LET p == "AccountTransaction"
        txs == Transactions(Events(p))
        hashes == SetToSeq({txs[i].tx : i \in DOMAIN txs})
        RowsOf(i) == ToRows(Events(p), hashes[i], Height(p))
        Data(i) == AccountTransactionDataRow(Events(p), txs[i], Height(p))
    IN  /\ Ready(p) /\ ~AddsToNil(Events(p))
        /\ rows' = [rows EXCEPT ![p] = @ \o FlattenSeq([i \in DOMAIN hashes |-> RowsOf(i)]),
                                !["AccountTransactionData"] = @ \o [i \in DOMAIN txs |-> Data(i)]]
        /\ totals' = [totals EXCEPT ![p] =
                        @ (+) CountedAll([i \in DOMAIN txs |-> TransactionIdentities(Events(p), txs[i])])]
        /\ Commit(p)

-----------------------------------------------------------------------------
(* transaction, block, blockevent, ibc_channel_message *)

TransactionRow(events, tx, height) ==
    [tx |-> tx.tx, height |-> height, memo |-> tx.memo, ok |-> tx.ok, signers |-> tx.Senders,
     msgs |-> MsgsOf(events, tx.tx)]

\* Without transactions the height has no total.
HandleTransaction ==
    LET p == "Transaction"
        txs == Transactions(Events(p))
        height == ToString(Height(p))
    IN  /\ Ready(p)
        /\ rows' = [rows EXCEPT ![p] = @ \o [i \in DOMAIN txs |-> TransactionRow(Events(p), txs[i], Height(p))]]
        /\ totals' = [totals EXCEPT ![p] =
                        IF txs = <<>> THEN @
                        ELSE SetTotal(IncrementTotal(@, <<"-", "-">>, Len(txs)), <<height, "-">>, Len(txs))]
        /\ Commit(p)

BlockRow(created, height) == [height |-> height, count |-> created.count]

HandleBlock ==
    LET created == SelectSeq(Events("Block"), LAMBDA event : event.name = "BlockCreated")
    IN  /\ Ready("Block")
        /\ rows' = [rows EXCEPT !["Block"] =
                      @ \o [i \in DOMAIN created |-> BlockRow(created[i], Height("Block"))]]
        /\ UNCHANGED totals
        /\ Commit("Block")

BlockEventNames ==
    {"BlockProposerRewarded", "BlockRewarded", "BlockCommissioned", "Minted", "ProposalEnded",
     "ProposalInactived", "ValidatorSlashed", "ValidatorJailed"}

BlockEventRow(event, height) == [height |-> height, type |-> event.name]

HandleBlockEvent ==
    LET p == "BlockEvent"
        height == ToString(Height(p))
        kept == SelectSeq(Events(p), LAMBDA event : event.name \in BlockEventNames)
        Identities(i) == {<<"-", "-">>, <<"-", kept[i].name>>, <<height, kept[i].name>>}
    IN  /\ Ready(p)
        /\ rows' = [rows EXCEPT ![p] =
                      @ \o [i \in DOMAIN kept |-> BlockEventRow(kept[i], Height(p))]]
        /\ totals' = [totals EXCEPT ![p] =
                        SetTotal(@, <<height, "-">>, Len(kept)) (+) CountedAll([i \in DOMAIN kept |-> Identities(i)])]
        /\ Commit(p)

\* The channel of a message at this end; of a packet that comes, its destination.
MessageChannel(event) ==
    CASE event.msg \in {"MsgChannelOpenInit", "MsgChannelOpenTry", "MsgChannelOpenAck",
                        "MsgChannelOpenConfirm"} \cup CloseMsgs -> event.params.ChannelID
      [] event.msg = "MsgTransfer" -> event.params.SourceChannel
      [] event.msg = "MsgRecvPacket" -> event.params.Packet.destination
      [] event.msg \in {"MsgAcknowledgement", "MsgTimeout", "MsgTimeoutOnClose"} -> event.params.Packet.source

ChannelMsgs ==
    {"MsgChannelOpenInit", "MsgChannelOpenTry", "MsgChannelOpenAck", "MsgChannelOpenConfirm",
     "MsgTransfer", "MsgRecvPacket", "MsgAcknowledgement", "MsgTimeout", "MsgTimeoutOnClose"} \cup CloseMsgs

\* Only what succeeded is listened to.
OnChannelMsg(event) == IsMsg(event) /\ event.msg \in ChannelMsgs /\ event.ok

ChannelMessageRow(event, height) ==
    [channel |-> MessageChannel(event), type |-> event.msg, tx |-> event.tx, height |-> height]

ChannelIdentities(row) == {<<row.channel, "-">>, <<row.channel, row.type>>}

HandleIBCChannelMessage ==
    LET p == "IBCChannelMessage"
        msgs == SelectSeq(Events(p), OnChannelMsg)
        new == [i \in DOMAIN msgs |-> ChannelMessageRow(msgs[i], Height(p))]
    IN  /\ Ready(p)
        /\ rows' = [rows EXCEPT ![p] = @ \o new]
        /\ totals' = [totals EXCEPT ![p] = @ (+) CountedAll([i \in DOMAIN new |-> ChannelIdentities(new[i])])]
        /\ Commit(p)

-----------------------------------------------------------------------------
(* The lists of the views: the rows of a filter, in order, and the total *)

\* The identifiers of the rows that satisfy a condition; the last come first, if asked.
Chosen(view, Has(_), desc) ==
    LET ids == SelectSeq([i \in DOMAIN rows[view] |-> i], LAMBDA i : Has(rows[view][i]))
    IN  IF desc THEN Reverse(ids) ELSE ids

TotalOf(view, identities) ==
    FoldSet(LAMBDA identity, sum : sum + CopiesIn(identity, totals[view]), 0, identities)

Typed(key, types) == IF types = {} THEN {<<key, "-">>} ELSE {<<key, t>> : t \in types}

AccountMessagesList(l) ==
    [ids |-> Chosen("AccountMessage",
                    LAMBDA r : r.account = l.account /\ (l.types = {} \/ r.type \in l.types), l.desc),
     total |-> TotalOf("AccountMessage", Typed(l.account, l.types))]

\* Joined with the data of the transaction, which has the memo: a row of a hash that is
\* in the block twice is listed twice.
AccountTransactionsList(l) ==
    LET Joined(r) == SelectSeq(rows["AccountTransactionData"],
                               LAMBDA d : d.height = r.height /\ d.tx = r.tx /\ l.memo \in {"", d.memo})
        mine == Chosen("AccountTransaction", LAMBDA r : r.account = l.account, l.desc)
        Listed(id) == [d \in DOMAIN Joined(rows["AccountTransaction"][id]) |-> id]
    IN  [ids |-> FlattenSeq([k \in DOMAIN mine |-> Listed(mine[k])]),
         total |-> TotalOf("AccountTransaction",
                           {<<IF l.memo = "" THEN l.account ELSE l.account \o "/" \o l.memo, "-">>})]

\* The heights may be reversed, the transactions of a block are not.
TransactionsList(l) ==
    LET At(h) == Chosen("Transaction", LAMBDA r : r.height = h, FALSE)
        heights == IF l.height # 0 THEN <<l.height>> ELSE [h \in 1..Len(stored) |-> h]
    IN  [ids |-> FlattenSeq([i \in DOMAIN heights |-> At(IF l.desc THEN Reverse(heights)[i] ELSE heights[i])]),
         total |-> TotalOf("Transaction", {<<IF l.height = 0 THEN "-" ELSE ToString(l.height), "-">>})]

\* The total of the blocks is the height of the last; without one there is no answer.
ListFails(l) == l.view = "Block" /\ rows["Block"] = <<>>

BlocksList(l) ==
    [ids |-> Chosen("Block", LAMBDA r : TRUE, l.desc), total |-> Last(rows["Block"]).height]

BlockEventsList(l) ==
    [ids |-> Chosen("BlockEvent", LAMBDA r : l.height \in {0, r.height}, l.desc),
     total |-> TotalOf("BlockEvent", {<<IF l.height = 0 THEN "-" ELSE ToString(l.height), "-">>})]

\* Ordered by the time of the block alone, which the messages of a block share.
ChannelMessagesList(l) ==
    [ids |-> Chosen("IBCChannelMessage",
                    LAMBDA r : r.channel = l.channel /\ (l.types = {} \/ r.type \in l.types), l.desc),
     total |-> TotalOf("IBCChannelMessage", Typed(l.channel, l.types))]

ListOf(l) ==
    CASE l.view = "AccountMessage" -> AccountMessagesList(l)
      [] l.view = "AccountTransaction" -> AccountTransactionsList(l)
      [] l.view = "Transaction" -> TransactionsList(l)
      [] l.view = "Block" -> BlocksList(l)
      [] l.view = "BlockEvent" -> BlockEventsList(l)
      [] l.view = "IBCChannelMessage" -> ChannelMessagesList(l)

-----------------------------------------------------------------------------
(* Rows by their keys: the hash of a transaction, the height of a block *)

SearchLimit == 5

\* At most one: the newest of the transactions that have the hash.
FindByHash(hash) ==
    LET found == SelectSeq(rows["Transaction"], LAMBDA r : r.tx = hash)
    IN  IF found = <<>> THEN <<>> ELSE <<Last(found)>>

\* The transactions that have the hash come in the order of their heights.
SearchTransactions(keyword) ==
    LET found == SelectSeq(rows["Transaction"], LAMBDA r : r.tx = keyword)
    IN  SubSeq(found, 1, IF Len(found) < SearchLimit THEN Len(found) ELSE SearchLimit)

FindBlockBy(height) == SelectSeq(rows["Block"], LAMBDA r : r.height = height)

-----------------------------------------------------------------------------
(* A client of a list *)

Offset(page) == Limit * (page - 1)

PageOf(ids, page) ==
    SubSeq(ids, Offset(page) + 1, IF Len(ids) < Offset(page) + Limit THEN Len(ids) ELSE Offset(page) + Limit)

\* Mutant of TotalPage: a last page that is not full is not counted.
TotalPageFull(total) == total \div Limit

TotalPage(total) == (total + Limit - 1) \div Limit

\* had: the rows of the list when the client started, without which it is promised
\* nothing; nor is it by the list of a channel, whose order is not determined within a
\* block.
StartReading(l) ==
    /\ reader.phase = "idle" /\ l.view # "IBCChannelMessage"
    /\ ~ListFails(l) /\ ListOf(l).ids # <<>>
    /\ reader' = [phase |-> "rows", list |-> l, page |-> 1, seen |-> {}, had |-> ToSet(ListOf(l).ids)]
    /\ UNCHANGED <<chain, stored, panicked, projections>>

ReadRows ==
    /\ reader.phase = "rows"
    /\ reader' = [reader EXCEPT !.phase = "total",
                                !.seen = @ \cup ToSet(PageOf(ListOf(reader.list).ids, reader.page))]
    /\ UNCHANGED <<chain, stored, panicked, projections>>

\* The client goes on until the last page of the total it was told.
ReadTotal ==
    /\ reader.phase = "total"
    /\ reader' = IF reader.page < TotalPage(ListOf(reader.list).total)
                 THEN [reader EXCEPT !.phase = "rows", !.page = @ + 1]
                 ELSE [reader EXCEPT !.phase = "done"]
    /\ UNCHANGED <<chain, stored, panicked, projections>>

-----------------------------------------------------------------------------

Next ==
    \/ StoreBlock
    \/ HandleAccountMessage \/ HandleAccountTransaction
    \/ HandleTransaction \/ HandleBlock \/ HandleBlockEvent \/ HandleIBCChannelMessage
    \/ \E l \in Lists : StartReading(l)
    \/ ReadRows \/ ReadTotal

Spec == Init /\ [][Next]_vars

-----------------------------------------------------------------------------
(* Properties *)

\* Messages that no parser can read whatever their block: grants and allowances whose
\* granter is read from another, absent kind of grant.
Unparsable(m, ok) ==
    \/ m.type = "MsgGrant" /\ m.authorization = "GenericAuthorization"
    \/ m.type = "MsgGrant" /\ m.authorization = "StakeAuthorization" /\ ~ok
    \/ m.type = "MsgGrantAllowance" /\ m.allowance \in {"PeriodicAllowance", "AllowedMsgAllowance"}

\* Rewards in other coins than the staked one, claimed by a change of a delegation.
ClaimsOtherCoins(m, ok) ==
    /\ ok /\ m.type \in {"MsgDelegate", "MsgUndelegate", "MsgBeginRedelegate"}
    /\ \E i \in DOMAIN m.log : \E k \in DOMAIN m.log[i].attrs :
         m.log[i].type = "transfer" /\ m.log[i].attrs[k][1] = "amount" /\ m.log[i].attrs[k][2] # {StakingDenom}

\* Signers that are not known, by the keys of a transaction and the addresses that the
\* messages of the whole block give.
UnknownSigners(tx, block) ==
    LET possible == ParseBlockTxsMsgToCommands(block).addrs
    IN  \/ NobodySigns(tx.keys, possible)
        \/ SignsAsKeylessGroup(tx.keys)
        \/ SignsAsKeylessAccount(tx.keys, possible)

\* No other block stops the service for good: of blocks with the logs and the events of
\* a node, whatever succeeds or fails in one, and in whatever order, the parsers answer,
\* but for the grants, the rewards and the signers above.
NoOtherBlockStops ==
    panicked => LET block == chain[Len(stored) + 1]
                IN  \E tx \in ToSet(block.txs) :
                      \/ \E m \in ToSet(tx.msgs) : Unparsable(m, tx.ok) \/ ClaimsOtherCoins(m, tx.ok)
                      \/ UnknownSigners(tx, block)

\* A packet is recorded as received exactly when the chain received it, on both sides
\* of the height from which the chain emits the flag the other way round.
SuccessIsTruth ==
    \A h \in DOMAIN stored : \A event \in ToSet(stored[h]) :
        event.name = "MsgRecvPacketCreated" =>
            event.params.Success = event.params.Packet.received

\* No projection meets a message whose transaction it does not know.
HandlersNeverFail == \A h \in DOMAIN stored : ~AddsToNil(stored[h])

\* What a list announces as its total is the number of its rows, for every account,
\* memo, type of message, height and channel, at every moment at which it answers.
ListsMatchTotals == \A l \in Lists : ListFails(l) \/ Len(ListOf(l).ids) = ListOf(l).total

\* The views tell one story of a block, whichever of them is ahead: a message of an
\* account is in a transaction of that account with its type; a block counts as many
\* transactions as are listed at its height; and a transaction of an account is found by
\* its hash, with the messages and the success that the account is shown, unless a later
\* block has it again, which is found instead; a search has all of them, up to its limit.
ViewsAgree ==
    /\ \A r \in ToSet(rows["AccountMessage"]) :
         r.height <= lastHandled["AccountTransaction"] =>
            \E q \in ToSet(rows["AccountTransaction"]) :
                q.account = r.account /\ q.tx = r.tx /\ q.height = r.height /\ r.type \in q.types
    /\ \A height \in 1..lastHandled["Transaction"] :
         \A b \in ToSet(FindBlockBy(height)) :
            b.count = Len(SelectSeq(rows["Transaction"], LAMBDA r : r.height = height))
    /\ \A r \in ToSet(rows["AccountTransaction"]) :
         r.height <= lastHandled["Transaction"] =>
            \E t \in ToSet(FindByHash(r.tx)) :
                \/ t.height > r.height
                \/ t.height = r.height /\ t.ok = r.ok /\ r.types = {t.msgs[i].msg : i \in DOMAIN t.msgs}
    /\ \A d \in ToSet(rows["AccountTransactionData"]) :
         d.height <= lastHandled["Transaction"] /\ Len(SearchTransactions(d.tx)) < SearchLimit =>
            \E t \in ToSet(SearchTransactions(d.tx)) :
                t.height = d.height /\ t.ok = d.ok /\ t.msgs = d.msgs

\* The store can decode whatever it stored: without that the projections of the
\* event-store mode stop at the height for good.  Only the validators of the genesis,
\* whose event was never registered, are the exception.
StoredEventsDecode ==
    /\ \A h \in DOMAIN stored : Decodable(stored[h])
    /\ \A event \in ToSet(ParseGenesisCommands(Genesis)) :
         event.name \in Registered \/ event.name = "GenesisValidatorCreated"

\* A client that pages through a list while blocks are handled has seen, at the end,
\* every row that was there when it started, in either order.
PagesAreComplete == reader.phase = "done" => reader.had \subseteq reader.seen
=============================================================================
