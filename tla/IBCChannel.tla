------------------------------ MODULE IBCChannel ------------------------------
(***************************************************************************)
(* The IBC channel projection (projection/ibc_channel) of two chains that  *)
(* are connected to each other: clients, connections and channels, the     *)
(* packets counted on each channel, and the tokens bonded to each side.    *)
(*                                                                         *)
(* The chains (x/ibc, x/ibc-transfer) are the environment: handshakes,     *)
(* transfers, receipts, acknowledgements and timeouts of any packet in any *)
(* order the protocol allows.  Each chain has its own index, which handles *)
(* the blocks of its chain at its own pace.  Tokens are paths: the ends    *)
(* they came through, newest first, and the native token.  All ports are   *)
(* "transfer"; order, version and description of a channel are left out.   *)
(***************************************************************************)
EXTENDS Integers, Sequences, SequencesExt, FiniteSets, Bags

CONSTANTS
    Chains,         \* two chains
    Pairs,          \* pairs of channel ends: [chain -> end], end identifiers differ
    Extensions,     \* <<e, g>>: the identifier of g is that of e and more ("1", "10")
    Supply,         \* native tokens of each chain
    MaxEvents,      \* bound: events of a block
    EnableTxMsgTrace, \* the configuration of the projection: messages leave traces
    Scopes          \* bounds: [pairs, established, crossing, packets, amounts, lag (blocks of
                    \* a chain that its index has not handled), close]

ASSUME IBCAssumption ==
    /\ IsFiniteSet(Chains) /\ Cardinality(Chains) = 2 /\ IsFiniteSet(Pairs)
    /\ \A p \in Pairs : p = [c \in Chains |-> p[c]]
    /\ \A p, q \in Pairs : \A c, d \in Chains : p[c] = q[d] => p = q /\ c = d
    /\ Supply \in Nat \ {0} /\ EnableTxMsgTrace \in BOOLEAN
    /\ \A s \in Scopes :
          s.pairs \subseteq Pairs /\ s.amounts \subseteq Nat \ {0} /\ s.established \in BOOLEAN

VARIABLES
    scope,          \* the bounds of this behaviour: a member of Scopes
    \* the chains
    client,         \* chains that have a client of the other
    connection,     \* the state of each chain's connection end
    channel,        \* each channel end: [state, opened, active], the heights of its opening
                    \* and of its last packet or closing
    packets,        \* every packet sent, in order: [src, dst, seq, denom, amount, state]
    held,           \* tokens of each chain in its accounts: a bag of denoms
    escrow,         \* tokens in the escrow account of an end
    minted,         \* vouchers of an end
    height,         \* the height of each chain
    \* the indexes
    queue,          \* blocks not handled yet: each a sequence of events
    view            \* the tables of each index

chainVars == <<client, connection, channel, packets, held, escrow, minted>>
vars == <<scope, chainVars, height, queue, view>>

Ends == UNION {{p[c] : c \in Chains} : p \in Pairs}
EndsOf(c) == {p[c] : p \in Pairs}
ChainOf(e) == CHOOSE c \in Chains : e \in EndsOf(c)
Other(c) == CHOOSE d \in Chains : d # c
Counterparty(e) == LET p == CHOOSE q \in Pairs : q[ChainOf(e)] = e IN p[Other(ChainOf(e))]

\* Identifiers of the one client and the one connection of a chain
ClientId(c) == <<"client", c>>
ConnectionId(c) == <<"connection", c>>

-----------------------------------------------------------------------------
(* The tables: an insertion of an identifier that is there (UNIQUE), and an    *)
(* update or a lookup of one that is not, are errors.                          *)

\* A table with a row added or replaced.
With(table, id, row) ==
    [i \in DOMAIN table \cup {id} |-> IF i = id THEN row ELSE table[i]]

EmptyView == [clients |-> << >>, connections |-> << >>, channels |-> << >>,
              denoms |-> {}, traces |-> << >>, failed |-> FALSE]

Stop(v) == [v EXCEPT !.failed = TRUE]

InsertClient(v, ev) ==
    IF ev.client \in DOMAIN v.clients THEN Stop(v)
    ELSE [v EXCEPT !.clients = With(@, ev.client, ev.chain)]

InsertConnection(v, ev) ==
    IF ev.client \notin DOMAIN v.clients \/ ev.id \in DOMAIN v.connections THEN Stop(v)
    ELSE [v EXCEPT !.connections = With(@, ev.id,
            [client |-> ev.client, cpConnection |-> ev.cpId,
             cpClient |-> ev.cpClient, cpChain |-> v.clients[ev.client]])]

\* The client column is set to the client of the counterparty.
UpdateConnection(v, ev) ==
    IF ev.client \notin DOMAIN v.clients \/ ev.id \notin DOMAIN v.connections THEN Stop(v)
    ELSE [v EXCEPT !.connections[ev.id] =
            [client |-> ev.cpClient, cpConnection |-> ev.cpId,
             cpClient |-> ev.cpClient, cpChain |-> v.clients[ev.client]]]

NewChannel(ev, chain) ==
    [connection |-> ev.connection, cpChannel |-> ev.cpId, cpChain |-> chain,
     status |-> "NOT_ESTABLISHED", createdAt |-> 0, lastActivity |-> 0,
     lastIn |-> 0, lastOut |-> 0, relayIn |-> 0, relayOut |-> 0, relayOutSuccess |-> 0,
     rate |-> <<0, 1>>, onThis |-> EmptyBag, onCounterparty |-> EmptyBag]

InsertChannel(v, ev) ==
    IF ev.connection \notin DOMAIN v.connections \/ ev.id \in DOMAIN v.channels THEN Stop(v)
    ELSE [v EXCEPT !.channels =
            With(@, ev.id, NewChannel(ev, v.connections[ev.connection].cpChain))]

UpdateStatus(row, status) == [row EXCEPT !.status = status]
UpdateLastActivity(row, h) == [row EXCEPT !.lastActivity = h]
Increment(row, column) == [row EXCEPT ![column] = @ + 1]
UpdateSequence(row, column, seq) == [row EXCEPT ![column] = seq]

\* The success rate is computed from the counts of the row.
UpdateTotalRelayOutSuccessRate(row) ==
    [row EXCEPT !.rate = IF row.relayOut > 0 THEN <<row.relayOutSuccess, row.relayOut>>
                         ELSE <<0, 1>>]

\* Mutant of UpdateFactualColumns: the columns known from the first message are kept.
UpdateFactualColumnsCreation(row, ev, chain, h) == [row EXCEPT !.createdAt = h]

UpdateFactualColumns(row, ev, chain, h) ==
    [row EXCEPT !.connection = ev.connection, !.cpChannel = ev.cpId,
                !.cpChain = chain, !.createdAt = h]

OpenChannel(v, ev, h) ==
    IF ev.connection \notin DOMAIN v.connections \/ ev.id \notin DOMAIN v.channels THEN Stop(v)
    ELSE [v EXCEPT !.channels[ev.id] = UpdateStatus(
            UpdateFactualColumns(@, ev, v.connections[ev.connection].cpChain, h), "OPENED")]

CloseChannelRow(v, ev, h) ==
    IF ev.id \notin DOMAIN v.channels THEN Stop(v)
    ELSE [v EXCEPT !.channels[ev.id] = UpdateLastActivity(UpdateStatus(@, "CLOSED"), h)]

-----------------------------------------------------------------------------
(* Bonded tokens *)

\* strings.HasPrefix: the identifier of the source need not end where the prefix does.
receiverChainIsTokenSource(p) ==
    Len(p.denom) > 1 /\ (Head(p.denom) = p.src \/ <<p.src, Head(p.denom)>> \in Extensions)

BondedDenom(p) == <<p.dst>> \o p.denom

Tokens(denom, amount) == [d \in {denom} |-> amount]

AddToken(tokens, denom, amount) == tokens (+) Tokens(denom, amount)

\* An entry that reaches zero is removed.
SubtractToken(tokens, denom, amount) ==
    IF tokens[denom] = amount THEN [d \in DOMAIN tokens \ {denom} |-> tokens[d]]
    ELSE [tokens EXCEPT ![denom] = @ - amount]

AddOnThisChain(v, e, denom, amount) ==
    [v EXCEPT !.channels[e].onThis = AddToken(@, denom, amount)]

AddOnCounterpartyChain(v, e, denom, amount) ==
    [v EXCEPT !.channels[e].onCounterparty = AddToken(@, denom, amount)]

SubtractOnThisChain(v, e, denom, amount) ==
    IF denom \notin DOMAIN v.channels[e].onThis THEN Stop(v)
    ELSE [v EXCEPT !.channels[e].onThis = SubtractToken(@, denom, amount)]

SubtractOnCounterpartyChain(v, e, denom, amount) ==
    IF denom \notin DOMAIN v.channels[e].onCounterparty THEN Stop(v)
    ELSE [v EXCEPT !.channels[e].onCounterparty = SubtractToken(@, denom, amount)]

\* view_ibc_denom_hash_mappings: the hash tells a denomination as the denomination does.
IfDenomExist(v, denom) == denom \in v.denoms

InsertDenom(v, denom) ==
    IF denom \in v.denoms THEN Stop(v) ELSE [v EXCEPT !.denoms = @ \cup {denom}]

\* Mutant of insertDenomHashMappingIfNotExist: a UNIQUE denomination is inserted unasked.
insertDenomHashMappingAlways(v, denom) == InsertDenom(v, denom)

insertDenomHashMappingIfNotExist(v, denom) ==
    IF IfDenomExist(v, denom) THEN v ELSE InsertDenom(v, denom)

\* IBCDenomHashMappingView.ListAll
ListAllDenoms(v) == v.denoms

updateBondedTokensWhenMsgIBCRecvPacket(v, p) ==
    IF receiverChainIsTokenSource(p)
    THEN SubtractOnCounterpartyChain(v, p.dst, p.denom, p.amount)
    ELSE insertDenomHashMappingIfNotExist(AddOnThisChain(v, p.dst, BondedDenom(p), p.amount), BondedDenom(p))

updateBondedTokensWhenMsgIBCTransfer(v, p) ==
    IF receiverChainIsTokenSource(p)
    THEN SubtractOnThisChain(v, p.src, p.denom, p.amount)
    ELSE AddOnCounterpartyChain(v, p.src, BondedDenom(p), p.amount)

\* Mutant of revertUpdateBondedTokensWhenMsgIBCTransfer: a voucher is not returned.
revertUpdateBondedTokensOfThisChain(v, p) ==
    IF receiverChainIsTokenSource(p) THEN v
    ELSE SubtractOnCounterpartyChain(v, p.src, BondedDenom(p), p.amount)

revertUpdateBondedTokensWhenMsgIBCTransfer(v, p) ==
    IF receiverChainIsTokenSource(p)
    THEN AddOnThisChain(v, p.src, p.denom, p.amount)
    ELSE SubtractOnCounterpartyChain(v, p.src, BondedDenom(p), p.amount)

-----------------------------------------------------------------------------
(* HandleEvents *)

\* With EnableTxMsgTrace a packet's event leaves the tokens it has led to; the
\* newest trace of each channel is kept here.
Traced(v, e) ==
    IF v.failed \/ ~EnableTxMsgTrace THEN v
    ELSE [v EXCEPT !.traces =
            With(@, e, <<v.channels[e].onThis, v.channels[e].onCounterparty>>)]

MsgIBCTransferTransfer(v, p, h) ==
    IF p.src \notin DOMAIN v.channels THEN Stop(v)
    ELSE LET row == UpdateTotalRelayOutSuccessRate(Increment(v.channels[p.src], "relayOut"))
             counted == UpdateLastActivity(UpdateSequence(row, "lastOut", p.seq), h)
         IN  Traced(updateBondedTokensWhenMsgIBCTransfer(
                        [v EXCEPT !.channels[p.src] = counted], p), p.src)

MsgIBCRecvPacket(v, p, success, h) ==
    IF p.dst \notin DOMAIN v.channels THEN Stop(v)
    ELSE LET counted == [v EXCEPT !.channels[p.dst] = UpdateLastActivity(
                            UpdateSequence(Increment(@, "relayIn"), "lastIn", p.seq), h)]
         IN  Traced(IF success THEN updateBondedTokensWhenMsgIBCRecvPacket(counted, p)
                    ELSE counted, p.dst)

\* Mutant of Settle: the rate is computed before the count is raised.
SettleStaleRate(v, p, refunded, h) ==
    IF p.src \notin DOMAIN v.channels THEN Stop(v)
    ELSE LET row == Increment(UpdateTotalRelayOutSuccessRate(v.channels[p.src]),
                              "relayOutSuccess")
             counted == [v EXCEPT !.channels[p.src] = UpdateLastActivity(row, h)]
         IN  Traced(IF refunded THEN revertUpdateBondedTokensWhenMsgIBCTransfer(counted, p)
                    ELSE counted, p.src)

\* A packet counts as relayed whether or not it is refunded.
Settle(v, p, refunded, h) ==
    IF p.src \notin DOMAIN v.channels THEN Stop(v)
    ELSE LET row == Increment(UpdateLastActivity(v.channels[p.src], h), "relayOutSuccess")
             counted == [v EXCEPT !.channels[p.src] = UpdateTotalRelayOutSuccessRate(row)]
         IN  Traced(IF refunded THEN revertUpdateBondedTokensWhenMsgIBCTransfer(counted, p)
                    ELSE counted, p.src)

MsgIBCAcknowledgement(v, p, success, h) == Settle(v, p, ~success, h)
MsgIBCTimeout(v, p, h) == Settle(v, p, TRUE, h)
MsgIBCTimeoutOnClose(v, p, h) == Settle(v, p, TRUE, h)

HandleEvent(v, ev, h) ==
    IF v.failed THEN v
    ELSE CASE ev.type = "CreateClient" -> InsertClient(v, ev)
           [] ev.type = "Connection" /\ ev.step \in {"OpenInit", "OpenTry"} ->
                InsertConnection(v, ev)
           [] ev.type = "Connection" /\ ev.step \in {"OpenAck", "OpenConfirm"} ->
                UpdateConnection(v, ev)
           [] ev.type = "Channel" /\ ev.step \in {"OpenInit", "OpenTry"} ->
                InsertChannel(v, ev)
           [] ev.type = "Channel" /\ ev.step \in {"OpenAck", "OpenConfirm"} ->
                OpenChannel(v, ev, h)
           [] ev.type = "Channel" /\ ev.step \in {"CloseInit", "CloseConfirm"} ->
                CloseChannelRow(v, ev, h)
           [] ev.type = "Transfer" -> MsgIBCTransferTransfer(v, ev.packet, h)
           [] ev.type = "RecvPacket" -> MsgIBCRecvPacket(v, ev.packet, ev.success, h)
           [] ev.type = "Acknowledgement" -> MsgIBCAcknowledgement(v, ev.packet, ev.success, h)
           [] ev.type = "Timeout" -> MsgIBCTimeout(v, ev.packet, h)
           [] ev.type = "TimeoutOnClose" -> MsgIBCTimeoutOnClose(v, ev.packet, h)

\* A block at a height, event after event
HandleBlock(v, events, h) ==
    LET after[n \in 0..Len(events)] ==
            IF n = 0 THEN v ELSE HandleEvent(after[n - 1], events[n], h)
    IN  after[Len(events)]

\* The next block, in one transaction
Handled(c) == HandleBlock(view[c], Head(queue[c]), height[c] - Len(queue[c]) + 1)

\* A block that fails is rolled back and handled again, for ever.
HandleEvents(c) ==
    /\ queue[c] # << >> /\ ~Handled(c).failed
    /\ view' = [view EXCEPT ![c] = Handled(c)]
    /\ queue' = [queue EXCEPT ![c] = Tail(@)]
    /\ UNCHANGED <<scope, chainVars, height>>

-----------------------------------------------------------------------------
(* The queries *)

FindBy(v, e) == v.channels[e]

\* By default the channel with the newest activity comes first.
List(v, statuses) ==
    LET found == {e \in DOMAIN v.channels : v.channels[e].status \in statuses}
    IN  CHOOSE listed \in [1..Cardinality(found) -> found] :
            /\ \A e \in found : \E i \in DOMAIN listed : listed[i] = e
            /\ \A i, j \in DOMAIN listed : i < j =>
                  v.channels[listed[i]].lastActivity >= v.channels[listed[j]].lastActivity

\* The rows listed are appended, one after the other, to those of their chain.
ListChannelsGroupByChainId(v, statuses) ==
    LET listed == List(v, statuses)
        groups[n \in 0..Len(listed)] ==
            IF n = 0 THEN << >>
            ELSE LET chain == v.channels[listed[n]].cpChain
                     group == IF chain \in DOMAIN groups[n - 1] THEN groups[n - 1][chain] ELSE << >>
                 IN  With(groups[n - 1], chain, Append(group, listed[n]))
    IN  groups[Len(listed)]

-----------------------------------------------------------------------------
(* The chains *)

\* The height of the block an event goes to: the last one if the index has not handled
\* it, or a new one.
Heights(c) ==
    {h \in {height[c], height[c] + 1} :
        IF h = height[c] THEN queue[c] # << >> /\ Len(queue[c][Len(queue[c])]) < MaxEvents
        ELSE Len(queue[c]) < scope.lag}

\* The last block gets an event.
Joined(blocks, ev) == [blocks EXCEPT ![Len(blocks)] = Append(@, ev)]

Emit(c, ev, h) ==
    /\ height' = [height EXCEPT ![c] = h]
    /\ queue' = [queue EXCEPT ![c] =
            IF h = height[c] THEN Joined(@, ev) ELSE Append(@, <<ev>>)]
    /\ UNCHANGED <<scope, view>>

CreateClientEvent(c) == [type |-> "CreateClient", client |-> ClientId(c), chain |-> Other(c)]

ConnectionEvent(c, step) ==
    [type |-> "Connection", step |-> step, client |-> ClientId(c), id |-> ConnectionId(c),
     cpId |-> IF step = "OpenInit" THEN << >> ELSE ConnectionId(Other(c)),
     cpClient |-> ClientId(Other(c))]

ChannelEvent(e, step) ==
    [type |-> "Channel", step |-> step, id |-> e, connection |-> ConnectionId(ChainOf(e)),
     cpId |-> IF step = "OpenInit" THEN "" ELSE Counterparty(e)]

PacketEvent(type, p, success) == [type |-> type, packet |-> p, success |-> success]

\* What an end may do when it and its counterparty are in these states, and the state it
\* leads to.  With crossing hellos both ends start, and an OpenTry finds its own end.
Handshake(own, other) ==
    {s \in {<<"OpenInit", "INIT">>, <<"OpenTry", "TRYOPEN">>,
            <<"OpenAck", "OPEN">>, <<"OpenConfirm", "OPEN">>} :
        CASE s[1] = "OpenInit" ->
                own = "none" /\ (other = "none" \/ (scope.crossing /\ other = "INIT"))
          [] s[1] = "OpenTry" ->
                other = "INIT" /\ (own = "none" \/ (scope.crossing /\ own = "INIT"))
          [] s[1] = "OpenAck" -> own \in {"INIT", "TRYOPEN"} /\ other = "TRYOPEN"
          [] s[1] = "OpenConfirm" -> own = "TRYOPEN" /\ other = "OPEN"}

\* A channel end in its next state, at a height
Moved(end, state, h) ==
    [end EXCEPT !.state = state, !.opened = IF state = "OPEN" THEN h ELSE @]

CreateClient(c) ==
    /\ c \notin client
    /\ client' = client \cup {c}
    /\ \E h \in Heights(c) : Emit(c, CreateClientEvent(c), h)
    /\ UNCHANGED <<connection, channel, packets, held, escrow, minted>>

ConnectionHandshake(c) ==
    /\ c \in client
    /\ \E s \in Handshake(connection[c], connection[Other(c)]) :
        /\ connection' = [connection EXCEPT ![c] = s[2]]
        /\ \E h \in Heights(c) : Emit(c, ConnectionEvent(c, s[1]), h)
    /\ UNCHANGED <<client, channel, packets, held, escrow, minted>>

\* A channel may be started before its connection is open.
ChannelHandshake(e) ==
    LET c == ChainOf(e)
    IN  /\ \E p \in scope.pairs : p[c] = e
        /\ \E s \in Handshake(channel[e].state, channel[Counterparty(e)].state),
              h \in Heights(c) :
            /\ IF s[1] = "OpenInit" THEN connection[c] # "none" ELSE connection[c] = "OPEN"
            /\ channel' = [channel EXCEPT ![e] = Moved(@, s[2], h)]
            /\ Emit(c, ChannelEvent(e, s[1]), h)
        /\ UNCHANGED <<client, connection, packets, held, escrow, minted>>

\* One end closes the channel and the other confirms.
CloseChannel(e) ==
    LET c == ChainOf(e)
        step == IF channel[Counterparty(e)].state = "CLOSED" THEN "CloseConfirm" ELSE "CloseInit"
    IN  /\ scope.close /\ channel[e].state = "OPEN"
        /\ \E h \in Heights(c) :
            /\ channel' = [channel EXCEPT ![e] = [@ EXCEPT !.state = "CLOSED", !.active = h]]
            /\ Emit(c, ChannelEvent(e, step), h)
        /\ UNCHANGED <<client, connection, packets, held, escrow, minted>>

\* A packet's event on end e
EmitPacket(e, type, p, success) ==
    \E h \in Heights(ChainOf(e)) :
        /\ channel' = [channel EXCEPT ![e].active = h]
        /\ Emit(ChainOf(e), PacketEvent(type, p, success), h)
        /\ UNCHANGED <<client, connection>>

\* The token came through end e: it goes back.
ReturnsThrough(denom, e) == Len(denom) > 1 /\ Head(denom) = e

SendTransfer(e, denom, amount) ==
    LET c == ChainOf(e)
        p == [src |-> e, dst |-> Counterparty(e), denom |-> denom, amount |-> amount,
              seq |-> Cardinality({i \in DOMAIN packets : packets[i].src = e}) + 1, state |-> "sent"]
        tokens == Tokens(denom, amount)
    IN  /\ channel[e].state = "OPEN" /\ Len(packets) < scope.packets
        /\ tokens \sqsubseteq held[c]
        /\ packets' = Append(packets, p)
        /\ held' = [held EXCEPT ![c] = @ (-) tokens]
        /\ IF ReturnsThrough(denom, e)
           THEN minted' = [minted EXCEPT ![e] = @ (-) tokens] /\ UNCHANGED escrow
           ELSE escrow' = [escrow EXCEPT ![e] = @ (+) tokens] /\ UNCHANGED minted
        /\ EmitPacket(e, "Transfer", p, TRUE)

\* The transfer succeeds: tokens of this chain leave the escrow, others are minted.
RecvPacket(i) ==
    LET p == packets[i]
        c == ChainOf(p.dst)
        back == Tokens(Tail(p.denom), p.amount)
        voucher == Tokens(BondedDenom(p), p.amount)
    IN  /\ p.state = "sent" /\ channel[p.dst].state = "OPEN"
        /\ packets' = [packets EXCEPT ![i].state = "received"]
        /\ IF ReturnsThrough(p.denom, p.src)
           THEN /\ escrow' = [escrow EXCEPT ![p.dst] = @ (-) back]
                /\ held' = [held EXCEPT ![c] = @ (+) back]
                /\ UNCHANGED minted
           ELSE /\ minted' = [minted EXCEPT ![p.dst] = @ (+) voucher]
                /\ held' = [held EXCEPT ![c] = @ (+) voucher]
                /\ UNCHANGED escrow
        /\ EmitPacket(p.dst, "RecvPacket", p, TRUE)

\* The transfer fails: the acknowledgement written is an error.
RecvPacketFails(i) ==
    LET p == packets[i]
    IN  /\ p.state = "sent" /\ channel[p.dst].state = "OPEN"
        /\ packets' = [packets EXCEPT ![i].state = "failed"]
        /\ UNCHANGED <<held, escrow, minted>>
        /\ EmitPacket(p.dst, "RecvPacket", p, FALSE)

\* The sender gets its tokens back.
Refund(i, state) ==
    LET p == packets[i]
        tokens == Tokens(p.denom, p.amount)
    IN  /\ packets' = [packets EXCEPT ![i].state = state]
        /\ held' = [held EXCEPT ![ChainOf(p.src)] = @ (+) tokens]
        /\ IF ReturnsThrough(p.denom, p.src)
           THEN minted' = [minted EXCEPT ![p.src] = @ (+) tokens] /\ UNCHANGED escrow
           ELSE escrow' = [escrow EXCEPT ![p.src] = @ (-) tokens] /\ UNCHANGED minted

Acknowledgement(i) ==
    LET p == packets[i]
    IN  /\ channel[p.src].state = "OPEN"
        /\ \/ /\ p.state = "received"
              /\ packets' = [packets EXCEPT ![i].state = "acknowledged"]
              /\ UNCHANGED <<held, escrow, minted>>
           \/ p.state = "failed" /\ Refund(i, "returned")
        /\ EmitPacket(p.src, "Acknowledgement", p, p.state = "received")

\* A packet that was not received in time, or that a closed end can never receive
Timeout(i) ==
    LET p == packets[i]
    IN  /\ p.state = "sent"
        /\ Refund(i, "timedOut")
        /\ \/ EmitPacket(p.src, "Timeout", p, FALSE)
           \/ /\ channel[p.dst].state = "CLOSED"
              /\ EmitPacket(p.src, "TimeoutOnClose", p, FALSE)

-----------------------------------------------------------------------------

\* The index that has handled the events that connect chain c and open its channels of
\* the scope, all in block 1
Established(c) ==
    LET first == c = CHOOSE d \in Chains : TRUE
        steps == IF first THEN <<"OpenInit", "OpenAck">> ELSE <<"OpenTry", "OpenConfirm">>
        connected == UpdateConnection(
                        InsertConnection(
                            InsertClient(EmptyView, CreateClientEvent(c)),
                            ConnectionEvent(c, steps[1])),
                        ConnectionEvent(c, steps[2]))
    IN  [connected EXCEPT !.channels =
            [e \in {p[c] : p \in scope.pairs} |->
                UpdateStatus(
                    UpdateFactualColumns(NewChannel(ChannelEvent(e, steps[1]), Other(c)),
                                         ChannelEvent(e, steps[2]), Other(c), 1), "OPENED")]]

Init ==
    /\ scope \in Scopes
    /\ client = IF scope.established THEN Chains ELSE {}
    /\ connection = [c \in Chains |-> IF scope.established THEN "OPEN" ELSE "none"]
    /\ channel = [e \in Ends |->
            IF scope.established /\ \E p \in scope.pairs : p[ChainOf(e)] = e
            THEN [state |-> "OPEN", opened |-> 1, active |-> 0]
            ELSE [state |-> "none", opened |-> 0, active |-> 0]]
    /\ packets = << >>
    /\ held = [c \in Chains |-> Tokens(<<c>>, Supply)]
    /\ escrow = [e \in Ends |-> EmptyBag] /\ minted = [e \in Ends |-> EmptyBag]
    /\ height = [c \in Chains |-> IF scope.established THEN 1 ELSE 0]
    /\ queue = [c \in Chains |-> << >>]
    /\ view = [c \in Chains |-> IF scope.established THEN Established(c) ELSE EmptyView]

Next ==
    \/ \E c \in Chains : HandleEvents(c) \/ CreateClient(c) \/ ConnectionHandshake(c)
    \/ \E e \in Ends : ChannelHandshake(e) \/ CloseChannel(e)
    \/ \E e \in Ends, amount \in scope.amounts :
            \E denom \in BagToSet(held[ChainOf(e)]) : SendTransfer(e, denom, amount)
    \/ \E i \in DOMAIN packets :
            RecvPacket(i) \/ RecvPacketFails(i) \/ Acknowledgement(i) \/ Timeout(i)

Spec == Init /\ [][Next]_vars

-----------------------------------------------------------------------------
(* Properties *)

\* The index of c has handled every block of c, and a channel of it
CaughtUp(c) == queue[c] = << >>
Rows(c) == view[c].channels

\* A channel that is opened by both sides at once is inserted twice.
ReusesIdentifier(c, ev) ==
    /\ ev.type \in {"Connection", "Channel"} /\ ev.step = "OpenTry"
    /\ \/ ev.id \in IF ev.type = "Channel" THEN DOMAIN Rows(c) ELSE DOMAIN view[c].connections
       \/ \E other \in ToSet(Head(queue[c])) :
            other.type = ev.type /\ other.step = "OpenInit" /\ other.id = ev.id

\* The identifier of the channel is the beginning of the one the token came through.
Lookalike(ev) ==
    /\ ev.type \notin {"CreateClient", "Connection", "Channel"}
    /\ <<ev.packet.src, Head(ev.packet.denom)>> \in Extensions

\* HandleEvents fails, and repeats the block for ever, only on a token whose first channel
\* merely starts like the one it is sent over (the HasPrefix of receiverChainIsTokenSource)
\* and on an identifier that a crossing OpenTry uses again: never on a transfer, receipt,
\* refund or handshake that the index has followed from its beginning.
StopsOnlyAtLookalikes ==
    \A c \in Chains : ~CaughtUp(c) /\ Handled(c).failed =>
        \E ev \in ToSet(Head(queue[c])) : Lookalike(ev) \/ ReusesIdentifier(c, ev)

\* On an index that has caught up, the tokens bonded to this chain are the vouchers of the
\* channel, those bonded to the counterparty are its escrow under the name they have there,
\* every voucher's denomination is recorded, and the newest trace shows what the row does.
BondedTokensMatchChain ==
    \A c \in Chains : CaughtUp(c) => \A e \in DOMAIN Rows(c) :
        /\ FindBy(view[c], e).onThis = minted[e]
        /\ DOMAIN FindBy(view[c], e).onCounterparty = {<<Counterparty(e)>> \o d : d \in DOMAIN escrow[e]}
        /\ \A d \in DOMAIN escrow[e] :
                FindBy(view[c], e).onCounterparty[<<Counterparty(e)>> \o d] = escrow[e][d]
        /\ DOMAIN minted[e] \subseteq ListAllDenoms(view[c])
        /\ e \in DOMAIN view[c].traces =>
                view[c].traces[e] = <<FindBy(view[c], e).onThis, FindBy(view[c], e).onCounterparty>>

\* On an index that has caught up every channel of the chain has a row with its state,
\* counterparty, opening and last activity; the list of open channels is complete, newest
\* activity first, and grouping it by chain loses and reorders nothing.
ChannelRowsMatchChain ==
    \A c \in Chains : CaughtUp(c) =>
        LET open == {e \in EndsOf(c) : channel[e].state = "OPEN"}
            listed == List(view[c], {"OPENED"})
        IN  /\ DOMAIN Rows(c) = {e \in EndsOf(c) : channel[e].state # "none"}
            /\ \A e \in DOMAIN Rows(c) : LET row == FindBy(view[c], e) IN
                /\ row.status = CASE channel[e].state = "OPEN" -> "OPENED"
                                  [] channel[e].state = "CLOSED" -> "CLOSED"
                                  [] OTHER -> "NOT_ESTABLISHED"
                /\ row.cpChain = Other(c) /\ row.createdAt = channel[e].opened
                /\ row.lastActivity = channel[e].active
                /\ row.status # "NOT_ESTABLISHED" =>
                        row.cpChannel = Counterparty(e) /\ row.connection = ConnectionId(c)
            /\ ToSet(listed) = open /\ Len(listed) = Cardinality(open)
            /\ \A i, j \in DOMAIN listed :
                    i < j => channel[listed[i]].active >= channel[listed[j]].active
            /\ ListChannelsGroupByChainId(view[c], {"OPENED"}) =
                    [d \in (IF open = {} THEN {} ELSE {Other(c)}) |-> listed]

\* On an index that has caught up the counts of a channel are those of its packets: sent,
\* settled (acknowledged or refunded, never more than sent) and received, with the sequence
\* of the last one sent and a success rate that is not stale.
RelayCountsMatch ==
    \A c \in Chains : CaughtUp(c) => \A e \in DOMAIN Rows(c) :
        LET row == FindBy(view[c], e)
            count(end, states) ==
                Cardinality({i \in DOMAIN packets :
                               packets[i][end] = e /\ packets[i].state \in states})
            settled == {"acknowledged", "returned", "timedOut"}
            pending == {"sent", "received", "failed"}
        IN  /\ row.relayOut = count("src", settled \cup pending)
            /\ row.relayOutSuccess = count("src", settled)
            /\ row.relayIn = count("dst", {"received", "failed", "acknowledged", "returned"})
            /\ row.lastOut = row.relayOut
            /\ row.rate = IF row.relayOut = 0 THEN <<0, 1>>
                          ELSE <<row.relayOutSuccess, row.relayOut>>

=============================================================================
