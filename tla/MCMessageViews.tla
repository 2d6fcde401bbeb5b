--------------------------- MODULE MCMessageViews ---------------------------
(***************************************************************************)
(* MessageViews on small chains: each kind of message, succeeding and      *)
(* failing, with the log a node gives it, in a block of its own; and       *)
(* blocks in which several of them meet.                                   *)
(***************************************************************************)
EXTENDS MessageViews

Ev(type, attrs) == [type |-> type, attrs |-> attrs]
With(m, log) == m @@ [log |-> log]

MCGenesis ==
    [gentxs |-> <<[delegator_address |-> "a", validator_address |-> "va"]>>,
     validators |-> <<[operator_address |-> "va", status |-> "BOND_STATUS_BONDED"]>>]

MCAccountAddress == [va |-> "a"]

Send == With([type |-> "MsgSend", from_address |-> "a", to_address |-> "b"], <<>>)
SendSelf == With([type |-> "MsgSend", from_address |-> "a", to_address |-> "a"], <<>>)
MultiSend == With([type |-> "MsgMultiSend", inputs |-> <<"a", "b">>, outputs |-> <<"b">>], <<>>)
SetWithdraw == With([type |-> "MsgSetWithdrawAddress", delegator_address |-> "a", withdraw_address |-> "b"], <<>>)
Withdraw == With([type |-> "MsgWithdrawDelegatorReward", delegator_address |-> "a", validator_address |-> "va"],
                 <<Ev("transfer", <<<<"recipient", "b">>, <<"sender", "distr">>, <<"amount", {"cro"}>>>>)>>)
WithdrawNone == With([type |-> "MsgWithdrawDelegatorReward", delegator_address |-> "a", validator_address |-> "va"], <<>>)
Commission == With([type |-> "MsgWithdrawValidatorCommission", validator_address |-> "va"],
                   <<Ev("transfer", <<<<"recipient", "a">>, <<"amount", {"cro"}>>>>)>>)
FundPool == With([type |-> "MsgFundCommunityPool", depositor |-> "a"], <<>>)

Proposal(content) ==
    With([type |-> "MsgSubmitProposal", proposer |-> "a", content |-> [type |-> content, recipient |-> "b"]],
         <<Ev("submit_proposal", <<<<"proposal_id", "1">>, <<"voting_period_start", "1">>>>)>>)
Proposals == {Proposal(c) : c \in {"ParameterChangeProposal", "CommunityPoolSpendProposal", "TextProposal",
                                   "SoftwareUpgradeProposal", "CancelSoftwareUpgradeProposal", "IBCUpgrade"}}
Vote == With([type |-> "MsgVote", proposal_id |-> "1", voter |-> "a"], <<>>)
Deposit == With([type |-> "MsgDeposit", proposal_id |-> "1", depositor |-> "a"],
                <<Ev("proposal_deposit", <<<<"amount", {"cro"}>>, <<"proposal_id", "1">>,
                                           <<"voting_period_start", "1">>, <<"proposal_id", "1">>>>)>>)

Rewards(denoms) ==
    Ev("transfer", <<<<"recipient", "a">>, <<"sender", "distr">>, <<"amount", denoms>>,
                     <<"recipient", "va">>, <<"sender", "a">>, <<"amount", {"cro"}>>>>)
Delegate(denoms) ==
    With([type |-> "MsgDelegate", delegator_address |-> "a", validator_address |-> "va"], <<Rewards(denoms)>>)
Undelegate ==
    With([type |-> "MsgUndelegate", delegator_address |-> "a", validator_address |-> "va"],
         <<Rewards({"cro"}), Ev("unbond", <<<<"completion_time", "t">>>>)>>)
Redelegate ==
    With([type |-> "MsgBeginRedelegate", delegator_address |-> "a", validator_src_address |-> "va",
          validator_dst_address |-> "vb"], <<Rewards({"cro"})>>)
CreateValidator ==
    With([type |-> "MsgCreateValidator", delegator_address |-> "a", validator_address |-> "va"], <<>>)
EditValidator == With([type |-> "MsgEditValidator", validator_address |-> "va"], <<>>)
Unjail == With([type |-> "MsgUnjail", validator_addr |-> "va"], <<>>)

NFTs == {With([type |-> t, sender |-> "a", recipient |-> "b"], <<>>) :
           t \in {"MsgIssueDenom", "MsgMintNFT", "MsgTransferNFT", "MsgEditNFT", "MsgBurnNFT"}}

Handshakes ==
    {With([type |-> "MsgCreateClient", client_state |-> c, signer |-> "a"],
          <<Ev("create_client", <<<<"client_id", "c">>, <<"client_type", "x">>>>)>>) :
        c \in {"tendermint", "solomachine", "other"}}
    \cup {With([type |-> "MsgUpdateClient", header |-> c, signer |-> "a"],
          <<Ev("update_client", <<<<"client_type", "x">>, <<"consensus_height", "1">>>>)>>) :
        c \in {"tendermint", "solomachine", "other"}}
    \cup {With([type |-> t[1], signer |-> "a", channel_id |-> "ch", client_state |-> t[3]],
          <<Ev(t[2], <<<<"connection_id", "c">>, <<"client_id", "c">>, <<"counterparty_client_id", "c">>,
                       <<"counterparty_connection_id", "c">>, <<"channel_id", "ch">>,
                       <<"counterparty_port_id", "p">>, <<"counterparty_channel_id", "d">>>>)>>) :
        t \in {<<"MsgConnectionOpenTry", "connection_open_try", "tendermint">>,
               <<"MsgConnectionOpenTry", "connection_open_try", "solomachine">>,
               <<"MsgConnectionOpenAck", "connection_open_ack", "tendermint">>,
               <<"MsgConnectionOpenAck", "connection_open_ack", "solomachine">>,
               <<"MsgConnectionOpenInit", "connection_open_init", "">>,
               <<"MsgConnectionOpenConfirm", "connection_open_confirm", "">>,
               <<"MsgChannelOpenInit", "channel_open_init", "">>, <<"MsgChannelOpenTry", "channel_open_try", "">>,
               <<"MsgChannelOpenAck", "channel_open_ack", "">>,
               <<"MsgChannelOpenConfirm", "channel_open_confirm", "">>,
               <<"MsgChannelCloseInit", "channel_close_init", "">>,
               <<"MsgChannelCloseConfirm", "channel_close_confirm", "">>}}

Packet(received) ==
    [port |-> "transfer", data |-> TRUE, sender |-> "x", receiver |-> "b", source |-> "ch",
     destination |-> "ch", received |-> received]
PacketAttrs ==
    <<<<"packet_sequence", "1">>, <<"packet_channel_ordering", "u">>, <<"packet_connection", "c">>,
      <<"packet_data", "d">>, <<"packet_data_hex", "h">>, <<"packet_dst_port", "p">>,
      <<"packet_dst_channel", "d">>, <<"packet_src_port", "p">>, <<"packet_src_channel", "ch">>,
      <<"packet_timeout_height", "0-9">>, <<"packet_timeout_timestamp", "9">>>>
Transfer ==
    With([type |-> "MsgTransfer", sender |-> "a", source_channel |-> "ch"], <<Ev("send_packet", PacketAttrs)>>)

\* What a chain emits of a packet at a height.
Flag(received, height) == IF received = (height >= V0_42_7) THEN "true" ELSE "false"
Recv(received, height) ==
    With([type |-> "MsgRecvPacket", signer |-> "a", packet |-> Packet(received)],
         <<Ev("recv_packet", PacketAttrs),
           Ev("fungible_token_packet", <<<<"success", Flag(received, height)>>>>),
           Ev("write_acknowledgement", <<<<"packet_ack", "k">>>>)>>)
RecvAgain ==
    With([type |-> "MsgRecvPacket", signer |-> "a", packet |-> Packet(TRUE)], <<Ev("recv_packet", PacketAttrs)>>)
RecvOther ==
    With([type |-> "MsgRecvPacket", signer |-> "a", packet |-> [Packet(TRUE) EXCEPT !.port = "icahost"]], <<>>)
Ack(executed) ==
    With([type |-> "MsgAcknowledgement", signer |-> "a", packet |-> Packet(TRUE)],
         <<Ev("acknowledge_packet", PacketAttrs)>> \o executed)
Acks == {Ack(<<>>), Ack(<<Ev("fungible_token_packet", <<<<"ack", "k">>, <<"success", "01">>>>)>>),
         Ack(<<Ev("fungible_token_packet", <<<<"ack", "k">>, <<"error", "e">>>>)>>)}
Timeouts ==
    {With([type |-> t, signer |-> "a", packet |-> Packet(FALSE)], <<Ev("timeout_packet", PacketAttrs)>> \o done) :
        t \in {"MsgTimeout", "MsgTimeoutOnClose"}, done \in {<<>>, <<Ev("timeout", <<>>)>>}}

Grants ==
    {With([type |-> "MsgGrant", granter |-> "a", grantee |-> "b", authorization |-> k], <<>>) :
        k \in {"SendAuthorization", "StakeAuthorization", "GenericAuthorization", "Other"}}
    \cup {With([type |-> "MsgGrantAllowance", granter |-> "a", grantee |-> "b", allowance |-> k], <<>>) :
        k \in {"BasicAllowance", "PeriodicAllowance", "AllowedMsgAllowance", "Other"}}
    \cup {With([type |-> t, granter |-> "a", grantee |-> "b"], <<>>) :
        t \in {"MsgRevoke", "MsgRevokeAllowance", "MsgExec"}}
Vesting == With([type |-> "MsgCreateVestingAccount", from_address |-> "a", to_address |-> "b"], <<>>)

Messages ==
    {Send, SendSelf, MultiSend, SetWithdraw, Withdraw, WithdrawNone, Commission, FundPool, Vote, Deposit,
     Delegate({"cro"}), Delegate({"cro", "atom"}), Undelegate, Redelegate, CreateValidator, EditValidator,
     Unjail, Transfer, Recv(TRUE, 1), Recv(FALSE, 1), RecvAgain, RecvOther, Vesting}
    \cup Proposals \cup NFTs \cup Handshakes \cup Acks \cup Timeouts \cup Grants

Key(account) == [single |-> TRUE, account |-> account]
Tx(hash, ok, memo, msgs) ==
    [hash |-> hash, ok |-> ok, memo |-> memo, keys |-> <<Key("a")>>, events |-> <<>>,
     msgs |-> [i \in DOMAIN msgs |-> IF ok THEN msgs[i] ELSE [msgs[i] EXCEPT !.log = <<>>]]]
Block(height, txs) == [height |-> height, txs |-> txs, begin |-> <<>>, end |-> <<>>, updates |-> <<>>]

\* A transaction without a public key, which takes the first address of the block.
Keyless(tx) == [tx EXCEPT !.keys = <<Key("")>>]
Unsigned(tx) == [tx EXCEPT !.keys = <<>>]
SignedByGroup(tx, account) == [tx EXCEPT !.keys = <<[single |-> FALSE, account |-> account]>>]

\* A message that gives no address, and a sender whom the node knows without a key.
Exec == With([type |-> "MsgExec", granter |-> "a", grantee |-> "b"], <<>>)
SendOfKeyless == [Send EXCEPT !.from_address = "k"]

\* Signers known and unknown: of nobody, alone and beside an address of another
\* transaction; of a group, with its key and without; of an account without a key.
Signers ==
    {<<Block(1, txs)>> : txs \in
        {<<Unsigned(Tx("t1", TRUE, "", <<Exec>>))>>,
         <<Unsigned(Tx("t1", TRUE, "", <<Exec>>)), Tx("t2", TRUE, "", <<Send>>)>>,
         <<Keyless(Tx("t1", TRUE, "", <<Exec>>))>>,
         <<SignedByGroup(Tx("t1", TRUE, "", <<Send>>), "m")>>,
         <<SignedByGroup(Tx("t1", TRUE, "", <<Send>>), "")>>,
         <<Keyless(Tx("t1", TRUE, "", <<SendOfKeyless>>))>>,
         <<Tx("t1", TRUE, "", <<Send>>), Keyless(Tx("t2", TRUE, "", <<SendOfKeyless>>))>>,
         <<Tx("t1", FALSE, "", <<SendOfKeyless>>), Keyless(Tx("t2", TRUE, "", <<Send>>))>>}}

\* One hash again: in the block, where the second fails by its sequence, and in a later
\* block, where what failed succeeds.
Again ==
    {<<Block(1, <<Tx("t1", TRUE, "memo", <<Send>>), Tx("t1", FALSE, "memo", <<Send>>)>>)>>,
     <<Block(1, <<Tx("t1", FALSE, "memo", <<Send, Vote>>)>>), Block(2, <<Tx("t1", TRUE, "memo", <<Send, Vote>>)>>)>>}

Singles == {<<Block(1, <<Tx("t1", TRUE, "", <<m>>), Tx("t2", FALSE, "", <<m>>)>>)>> : m \in Messages}

BeginEvents ==
    <<Ev("mint", <<<<"annual_provisions", "1">>, <<"bonded_ratio", "1">>, <<"inflation", "1">>, <<"amount", "5cro">>>>),
      Ev("transfer", <<<<"recipient", "a">>, <<"sender", "distr">>, <<"amount", "1cro">>>>),
      Ev("proposer_reward", <<<<"amount", "1cro">>, <<"validator", "va">>>>),
      Ev("rewards", <<<<"amount", "1cro">>, <<"validator", "va">>>>),
      Ev("rewards", <<<<"amount", "2cro">>, <<"validator", "vb">>>>),
      Ev("commission", <<<<"amount", "">>, <<"validator", "va">>>>),
      Ev("slash", <<<<"address", "n1">>, <<"power", "1">>, <<"reason", "double">>>>),
      Ev("slash", <<<<"jailed", "n1">>>>)>>
EndEvents ==
    <<Ev("complete_unbonding", <<<<"amount", "1cro">>, <<"delegator", "a">>, <<"validator", "va">>>>),
      Ev("active_proposal", <<<<"proposal_id", "1">>, <<"proposal_result", "passed">>>>),
      Ev("inactive_proposal", <<<<"proposal_id", "2">>, <<"proposal_result", "dropped">>>>)>>
TxEvents ==
    <<Ev("message", <<<<"sender", "a">>>>), Ev("transfer", <<<<"recipient", "b">>, <<"amount", "1cro">>>>),
      Ev("ethereum_tx", <<<<"ethereumTxHash", "h">>>>),
      Ev("send_packet", PacketAttrs)>>

Full(height, txs) ==
    [height |-> height, txs |-> txs, begin |-> BeginEvents, end |-> EndEvents, updates |-> <<"k">>]

Meetings ==
    {<<Block(1, <<Tx("t1", TRUE, "memo", <<Send, SendSelf>>), Keyless(Tx("t2", FALSE, "memo", <<Vote>>))>>),
       Full(2, <<[Tx("t3", TRUE, "", <<Send, Vote>>) EXCEPT !.events = TxEvents]>>)>>,
     <<Full(1, <<Tx("t1", TRUE, "", <<Recv(TRUE, 1), Recv(FALSE, 1)>>)>>),
       Block(2, <<Tx("t2", TRUE, "", <<Recv(TRUE, 2), Recv(FALSE, 2)>>), Tx("t3", FALSE, "memo", <<Transfer>>)>>)>>,
     <<Block(1, <<>>), Full(2, <<>>)>>}

MCChains == Singles \cup Meetings \cup Signers \cup Again

List(view) == [view |-> view, account |-> "a", types |-> {}, memo |-> "", height |-> 0, channel |-> "ch", desc |-> FALSE]
MCLists ==
    {[List("AccountMessage") EXCEPT !.types = {"MsgSend", "MsgVote"}, !.desc = TRUE],
     List("AccountTransaction"), [List("AccountTransaction") EXCEPT !.memo = "memo", !.desc = TRUE],
     [List("Transaction") EXCEPT !.desc = TRUE], [List("Transaction") EXCEPT !.height = 2],
     List("Block"), [List("BlockEvent") EXCEPT !.desc = TRUE], [List("BlockEvent") EXCEPT !.height = 2],
     List("IBCChannelMessage"), [List("IBCChannelMessage") EXCEPT !.types = {"MsgRecvPacket"}]}
=============================================================================
