------------------------------ MODULE IBCParser ------------------------------
(***************************************************************************)
(* The parsers of IBC messages (usecase/parser/ibcmsg), with the second    *)
(* version of one of them (usecase/parser/v0_42_7/ibcmsg): a newer chain   *)
(* emits the success of a received packet the right way round.             *)
(*                                                                         *)
(* A packet is [port, data, sender, receiver, source, destination]: its    *)
(* destination port, whether its data is a transfer of tokens, the parties *)
(* of the transfer, and the channels of both ends ("" when absent).        *)
(***************************************************************************)
EXTENDS MsgParser

\* The fields of the message, and what only the log of a success tells.
Handshake(p, msg, type, keys, params) ==
    Needs(p, type, keys, One(p, msg, params, <<p.m.signer>>))

\* A channel is known from the log, and unknown to a failed transaction.
Logged(p, type, key) == IF p.ok THEN AttributeOf(GetEventByType(p.log, type), key) ELSE ""

SignerOnly(p) == [Signer |-> p.m.signer]

parseRawMsgCreateTendermintLightClient(p) ==
    Handshake(p, "MsgCreateClient", "create_client", {"client_id", "client_type"}, SignerOnly(p))

parseRawMsgCreateSoloMachineLightClient(p) ==
    Handshake(p, "MsgCreateClient", "create_client", {"client_id", "client_type"}, SignerOnly(p))

ParseMsgCreateClient(p) ==
    CASE p.m.client_state = "tendermint" -> parseRawMsgCreateTendermintLightClient(p)
      [] p.m.client_state = "solomachine" -> parseRawMsgCreateSoloMachineLightClient(p)
      [] OTHER -> Ignored

ParseMsgConnectionOpenInit(p) ==
    Handshake(p, "MsgConnectionOpenInit", "connection_open_init", {"connection_id"}, SignerOnly(p))

\* The answers to a handshake carry the state of a client; only that of a Tendermint
\* client is read, and with another the message leaves nothing.
OfTendermint(p, result) == IF p.m.client_state = "tendermint" THEN result ELSE Ignored

ParseMsgConnectionOpenTry(p) ==
    OfTendermint(p, Handshake(p, "MsgConnectionOpenTry", "connection_open_try",
                              {"connection_id"}, SignerOnly(p)))

ParseMsgConnectionOpenAck(p) ==
    OfTendermint(p, Handshake(p, "MsgConnectionOpenAck", "connection_open_ack",
                              {"client_id", "counterparty_client_id"}, SignerOnly(p)))

ParseMsgConnectionOpenConfirm(p) ==
    Handshake(p, "MsgConnectionOpenConfirm", "connection_open_confirm",
              {"client_id", "counterparty_client_id", "counterparty_connection_id"}, SignerOnly(p))

ParseMsgChannelOpenInit(p) ==
    Needs(p, "channel_open_init", {"channel_id", "connection_id"},
          One(p, "MsgChannelOpenInit",
              [Signer |-> p.m.signer, ChannelID |-> Logged(p, "channel_open_init", "channel_id")],
              <<p.m.signer>>))

ParseMsgChannelOpenTry(p) ==
    Needs(p, "channel_open_try", {"channel_id", "connection_id"},
          One(p, "MsgChannelOpenTry",
              [Signer |-> p.m.signer, ChannelID |-> Logged(p, "channel_open_try", "channel_id")],
              <<p.m.signer>>))

OnChannel(p) == [Signer |-> p.m.signer, ChannelID |-> p.m.channel_id]

ParseMsgChannelOpenAck(p) ==
    Handshake(p, "MsgChannelOpenAck", "channel_open_ack",
              {"counterparty_port_id", "connection_id"}, OnChannel(p))

Counterparty == {"counterparty_port_id", "counterparty_channel_id", "connection_id"}

ParseMsgChannelOpenConfirm(p) ==
    Handshake(p, "MsgChannelOpenConfirm", "channel_open_confirm", Counterparty, OnChannel(p))

ParseMsgChannelCloseInit(p) ==
    Handshake(p, "MsgChannelCloseInit", "channel_close_init", Counterparty, OnChannel(p))

ParseMsgChannelCloseConfirm(p) ==
    Handshake(p, "MsgChannelCloseConfirm", "channel_close_confirm", Counterparty, OnChannel(p))

parseMsgUpdateTendermintLightClient(p) ==
    Handshake(p, "MsgUpdateClient", "update_client", {"client_type", "consensus_height"}, SignerOnly(p))

parseMsgUpdateSolomachineLightClient(p) ==
    Handshake(p, "MsgUpdateClient", "update_client", {"client_type", "consensus_height"}, SignerOnly(p))

ParseMsgUpdateClient(p) ==
    CASE p.m.header = "tendermint" -> parseMsgUpdateTendermintLightClient(p)
      [] p.m.header = "solomachine" -> parseMsgUpdateSolomachineLightClient(p)
      [] OTHER -> Ignored

-----------------------------------------------------------------------------
(* Packets of the transfer application *)

IsPacketMsgTransfer(packet) == packet.port = "transfer" /\ packet.data

PacketKeys == {"packet_sequence", "packet_channel_ordering", "packet_connection"}

ParseMsgTransfer(p) ==
    Needs(p, "send_packet",
          PacketKeys \cup {"packet_data", "packet_dst_port", "packet_dst_channel"},
          One(p, "MsgTransfer", [Sender |-> p.m.sender, SourceChannel |-> p.m.source_channel],
              <<p.m.sender>>))

Relayed(p, msg, success) ==
    One(p, msg, [Signer |-> p.m.signer, Packet |-> p.m.packet, Success |-> success], <<p.m.signer>>)

\* The flag that tells a success is an argument: it is what the versions differ in.
RecvPacket(p, truth) ==
    LET executed == GetEventByType(p.log, "fungible_token_packet")
    IN  CASE ~IsPacketMsgTransfer(p.m.packet) -> Ignored
          [] ~p.ok -> Relayed(p, "MsgRecvPacket", FALSE)
          [] Lacks(p.log, "recv_packet", {"packet_sequence"}) -> Panic
          [] ~HasEvent(p.log, "fungible_token_packet") -> Relayed(p, "MsgAlreadyRelayedRecvPacket", FALSE)
          [] \/ Lacks(p.log, "recv_packet", PacketKeys)
             \/ Lacks(p.log, "fungible_token_packet", {"success"})
             \/ /\ HasEvent(p.log, "denomination_trace")
                /\ Lacks(p.log, "denomination_trace", {"trace_hash", "denom"})
             \/ Lacks(p.log, "write_acknowledgement", {"packet_ack"}) -> Panic
          [] OTHER -> Relayed(p, "MsgRecvPacket", AttributeOf(executed, "success") = truth)

ParseMsgRecvPacket(p) == RecvPacket(p, "false")

ParseMsgRecvPacketV0_42_7(p) == RecvPacket(p, "true")

\* The success of an acknowledgement is the last flag among the events, which is one
\* byte, 1; an acknowledged failure has an error and no flag.
Acknowledged(p) ==
    LET flags == SelectSeq(GetEventsByType(p.log, "fungible_token_packet"),
                           LAMBDA event : HasAttribute(event, "success"))
    IN  flags # <<>> /\ AttributeOf(Last(flags), "success") = "01"

ParseMsgAcknowledgement(p) ==
    CASE ~IsPacketMsgTransfer(p.m.packet) -> Ignored
      [] ~p.ok -> Relayed(p, "MsgAcknowledgement", FALSE)
      [] Lacks(p.log, "acknowledge_packet", PacketKeys) -> Panic
      [] ~HasEvent(p.log, "fungible_token_packet") -> Relayed(p, "MsgAlreadyRelayedAcknowledgement", FALSE)
      [] OTHER -> Relayed(p, "MsgAcknowledgement", Acknowledged(p))

\* The sender of a packet is refunded; nobody by a failed transaction ("").
Refunded(p, msg) ==
    One(p, msg, [Signer |-> p.m.signer, Packet |-> p.m.packet,
                 RefundReceiver |-> IF p.ok THEN p.m.packet.sender ELSE ""], <<p.m.signer>>)

TimeoutKeys ==
    {"packet_timeout_height", "packet_timeout_timestamp", "packet_sequence", "packet_channel_ordering"}

ParseMsgTimeout(p) ==
    CASE ~IsPacketMsgTransfer(p.m.packet) -> Ignored
      [] p.ok /\ Lacks(p.log, "timeout_packet", TimeoutKeys) -> Panic
      [] p.ok /\ ~HasEvent(p.log, "timeout") -> Refunded(p, "MsgAlreadyRelayedTimeout")
      [] OTHER -> Refunded(p, "MsgTimeout")

ParseMsgTimeoutOnClose(p) ==
    CASE ~IsPacketMsgTransfer(p.m.packet) -> Ignored
      [] p.ok /\ Lacks(p.log, "timeout_packet", TimeoutKeys) -> Panic
      [] p.ok /\ ~HasEvent(p.log, "timeout") -> Refunded(p, "MsgAlreadyRelayedTimeoutOnClose")
      [] OTHER -> Refunded(p, "MsgTimeoutOnClose")
=============================================================================
