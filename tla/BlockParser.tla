------------------------------ MODULE BlockParser ------------------------------
(***************************************************************************)
(* A block and its results turned into commands, and the commands into     *)
(* events (usecase/parser): the order of the parsers, what of one          *)
(* transaction reaches the parsing of another, and what stops a block.     *)
(*                                                                         *)
(* A block is [height, txs, begin, end, updates]; a transaction is [hash,  *)
(* ok, memo, keys, msgs, events]: its keys say of each signer whether it is*)
(* a single one and the account of its public key ("" without one), and a  *)
(* message carries its log.                                                *)
(***************************************************************************)
EXTENDS IBCParser

CONSTANTS
    V0_42_7,        \* the height from which the chain runs the version 0.42.7 of its SDK
    KeylessAccounts,\* the accounts that the node knows without a public key
    AccountAddress  \* the account of each validator operator

ASSUME V0_42_7Assumption == V0_42_7 \in Nat

-----------------------------------------------------------------------------
(* The parsers of messages and their versions *)

Versions(type) == IF type = "MsgRecvPacket" THEN {0, V0_42_7} ELSE {0}

\* Mutant of ParserVersion: the latest version, whatever the height.
ParserVersionLatest(type, height) ==
    CHOOSE version \in Versions(type) : \A other \in Versions(type) : other <= version

\* The latest version that is enabled at the height.
ParserVersion(type, height) ==
    LET enabled == {version \in Versions(type) : version <= height}
    IN  CHOOSE version \in enabled : \A other \in enabled : other <= version

\* Types that are not listed here are skipped; MsgExec is one of them.
ParseMsg(p) ==
    CASE p.m.type = "MsgSend" -> ParseMsgSend(p)
      [] p.m.type = "MsgMultiSend" -> ParseMsgMultiSend(p)
      [] p.m.type = "MsgSetWithdrawAddress" -> ParseMsgSetWithdrawAddress(p)
      [] p.m.type = "MsgWithdrawDelegatorReward" -> ParseMsgWithdrawDelegatorReward(p)
      [] p.m.type = "MsgWithdrawValidatorCommission" -> ParseMsgWithdrawValidatorCommission(p)
      [] p.m.type = "MsgFundCommunityPool" -> ParseMsgFundCommunityPool(p)
      [] p.m.type = "MsgSubmitProposal" -> ParseMsgSubmitProposal(p)
      [] p.m.type = "MsgVote" -> ParseMsgVote(p)
      [] p.m.type = "MsgDeposit" -> ParseMsgDeposit(p)
      [] p.m.type = "MsgDelegate" -> ParseMsgDelegate(p)
      [] p.m.type = "MsgUndelegate" -> ParseMsgUndelegate(p)
      [] p.m.type = "MsgBeginRedelegate" -> ParseMsgBeginRedelegate(p)
      [] p.m.type = "MsgCreateValidator" -> ParseMsgCreateValidator(p)
      [] p.m.type = "MsgEditValidator" -> ParseMsgEditValidator(p)
      [] p.m.type = "MsgUnjail" -> ParseMsgUnjail(p)
      [] p.m.type = "MsgIssueDenom" -> ParseMsgNFTIssueDenom(p)
      [] p.m.type = "MsgMintNFT" -> ParseMsgNFTMintNFT(p)
      [] p.m.type = "MsgTransferNFT" -> ParseMsgNFTTransferNFT(p)
      [] p.m.type = "MsgEditNFT" -> ParseMsgNFTEditNFT(p)
      [] p.m.type = "MsgBurnNFT" -> ParseMsgNFTBurnNFT(p)
      [] p.m.type = "MsgCreateClient" -> ParseMsgCreateClient(p)
      [] p.m.type = "MsgUpdateClient" -> ParseMsgUpdateClient(p)
      [] p.m.type = "MsgConnectionOpenInit" -> ParseMsgConnectionOpenInit(p)
      [] p.m.type = "MsgConnectionOpenTry" -> ParseMsgConnectionOpenTry(p)
      [] p.m.type = "MsgConnectionOpenAck" -> ParseMsgConnectionOpenAck(p)
      [] p.m.type = "MsgConnectionOpenConfirm" -> ParseMsgConnectionOpenConfirm(p)
      [] p.m.type = "MsgChannelOpenInit" -> ParseMsgChannelOpenInit(p)
      [] p.m.type = "MsgChannelOpenTry" -> ParseMsgChannelOpenTry(p)
      [] p.m.type = "MsgChannelOpenAck" -> ParseMsgChannelOpenAck(p)
      [] p.m.type = "MsgChannelOpenConfirm" -> ParseMsgChannelOpenConfirm(p)
      [] p.m.type = "MsgRecvPacket" ->
            IF ParserVersion(p.m.type, p.height) = V0_42_7
            THEN ParseMsgRecvPacketV0_42_7(p) ELSE ParseMsgRecvPacket(p)
      [] p.m.type = "MsgAcknowledgement" -> ParseMsgAcknowledgement(p)
      [] p.m.type = "MsgTimeout" -> ParseMsgTimeout(p)
      [] p.m.type = "MsgTimeoutOnClose" -> ParseMsgTimeoutOnClose(p)
      [] p.m.type = "MsgChannelCloseInit" -> ParseMsgChannelCloseInit(p)
      [] p.m.type = "MsgChannelCloseConfirm" -> ParseMsgChannelCloseConfirm(p)
      [] p.m.type = "MsgTransfer" -> ParseMsgTransfer(p)
      [] p.m.type = "MsgGrant" -> ParseMsgGrant(p)
      [] p.m.type = "MsgRevoke" -> ParseMsgRevoke(p)
      [] p.m.type = "MsgGrantAllowance" -> ParseMsgGrantAllowance(p)
      [] p.m.type = "MsgRevokeAllowance" -> ParseMsgRevokeAllowance(p)
      [] p.m.type = "MsgCreateVestingAccount" -> ParseMsgCreateVestingAccount(p)
      [] OTHER -> Ignored

\* One after another; a panic of one is a panic of all.
InSequence(results) ==
    IF \E i \in DOMAIN results : results[i].panic THEN Panic
    ELSE Parsed(FlattenSeq([i \in DOMAIN results |-> results[i].cmds]),
                FlattenSeq([i \in DOMAIN results |-> results[i].addrs]))

ParseTxMsgs(tx, height) ==
    InSequence([i \in DOMAIN tx.msgs |->
        ParseMsg([height |-> height, tx |-> tx.hash, ok |-> tx.ok, i |-> i,
                  m |-> tx.msgs[i], log |-> tx.msgs[i].log])])

\* The addresses of all the messages of the block come out as one list.
ParseBlockTxsMsgToCommands(block) ==
    InSequence([k \in DOMAIN block.txs |-> ParseTxMsgs(block.txs[k], block.height)])

-----------------------------------------------------------------------------
(* Transactions *)

\* A signer without a public key is the address at its own position in the list of
\* the block; the node must know the account with a key, or not at all.
SignerAddress(key, j, possible) ==
    CASE key.account # "" -> key.account
      [] key.account = "" /\ j <= Len(possible) -> possible[j]
      [] OTHER -> ""

\* Neither a signer of the transaction nor an address of a message of the block.
NobodySigns(keys, possible) == keys = <<>> /\ possible = <<>>

\* Several keys sign as one account, whose public key is not in the transaction.
SignsAsKeylessGroup(keys) == \E j \in DOMAIN keys : ~keys[j].single /\ keys[j].account = ""

\* A signer without a public key takes the address of an account that has none either.
SignsAsKeylessAccount(keys, possible) ==
    \E j \in DOMAIN keys :
        keys[j].single /\ keys[j].account = "" /\ SignerAddress(keys[j], j, possible) \in KeylessAccounts

SignersPanic(keys, possible) ==
    NobodySigns(keys, possible) \/ SignsAsKeylessGroup(keys) \/ SignsAsKeylessAccount(keys, possible)

ParseSignerInfosToTransactionSigners(keys, possible) ==
    [j \in DOMAIN keys |-> SignerAddress(keys[j], j, possible)]

ParseTransaction(tx, possible) ==
    IF SignersPanic(tx.keys, possible) THEN Panic
    ELSE Parsed(<<[name |-> IF tx.ok THEN "TransactionCreated" ELSE "TransactionFailed",
                   tx |-> tx.hash, ok |-> tx.ok, memo |-> tx.memo, count |-> Len(tx.msgs),
                   Senders |-> ParseSignerInfosToTransactionSigners(tx.keys, possible)]>>, <<>>)

\* Mutant of ParseTransactionCommands: a transaction that failed is left out.
ParseTransactionCommandsOfSuccess(block, possible) ==
    InSequence([k \in DOMAIN block.txs |->
        IF block.txs[k].ok THEN ParseTransaction(block.txs[k], possible) ELSE Ignored])

ParseTransactionCommands(block, possible) ==
    InSequence([k \in DOMAIN block.txs |-> ParseTransaction(block.txs[k], possible)])

-----------------------------------------------------------------------------
(* Events outside of messages: an amount is a text here, "" when there is none *)

LacksKeys(event, keys) ==
    ~IsSingle(event.attrs) \/ \E key \in keys : ~HasAttribute(event.attrs, key)

\* An event without an amount is skipped, and the rest of it is not read.
WithAmount(event, keys, cmds) ==
    CASE LacksKeys(event, {"amount"}) -> Panic
      [] AttributeOf(event.attrs, "amount") = "" -> Ignored
      [] LacksKeys(event, keys) -> Panic
      [] OTHER -> Parsed(cmds, <<>>)

Event(name, params) == <<[name |-> name, params |-> params]>>

Transferred(event, sender) ==
    WithAmount(event, {"recipient"},
        Event("AccountTransferred", [Recipient |-> AttributeOf(event.attrs, "recipient"), Sender |-> sender]))

\* A transfer that does not name its sender is from the sender of the last message.
LastSender(events, i) ==
    LET senders == SelectSeq(SubSeq(events, 1, i - 1),
                             LAMBDA event : event.type = "message" /\ HasAttribute(event.attrs, "sender"))
    IN  IF senders = <<>> THEN "" ELSE AttributeOf(Last(senders).attrs, "sender")

ParseTxTransfer(events, i) ==
    LET event == events[i]
    IN  CASE event.type = "message" -> IF IsSingle(event.attrs) THEN Ignored ELSE Panic
          [] event.type = "transfer" ->
                Transferred(event, IF HasAttribute(event.attrs, "sender")
                                   THEN AttributeOf(event.attrs, "sender") ELSE LastSender(events, i))
          [] OTHER -> Ignored

ParseTxAccountTransferCommands(block) ==
    InSequence(FlattenSeq([k \in DOMAIN block.txs |->
        [i \in DOMAIN block.txs[k].events |-> ParseTxTransfer(block.txs[k].events, i)]]))

\* What is read of a packet that a contract sent.
SentPacketKeys ==
    {"packet_channel_ordering", "packet_connection", "packet_data", "packet_data_hex", "packet_dst_channel",
     "packet_dst_port", "packet_sequence", "packet_src_channel", "packet_src_port",
     "packet_timeout_height", "packet_timeout_timestamp"}

\* The texts of it that must be numbers, or JSON; "malformed" stands for any other text.
IsMalformed(event) ==
    \E key \in {"packet_data", "packet_timeout_height", "packet_sequence"} :
        AttributeOf(event.attrs, key) = "malformed"

\* A transfer over IBC that a contract of the Ethereum machine asked for.
parseCronosSendToIBC(tx) ==
    CASE \E i \in DOMAIN tx.events :
            \/ tx.events[i].type = "ethereum_tx" /\ LacksKeys(tx.events[i], {"ethereumTxHash"})
            \/ tx.events[i].type = "send_packet" /\ ~IsSingle(tx.events[i].attrs) -> Panic
      [] ~HasEvent(tx.events, "ethereum_tx") \/ ~HasEvent(tx.events, "send_packet") -> Ignored
      [] LacksKeys(Last(OfType(tx.events, "send_packet")), SentPacketKeys) -> Panic
      [] IsMalformed(Last(OfType(tx.events, "send_packet"))) -> Panic
      [] OTHER -> Parsed(Event("CronosSendToIBCCreated", [tx |-> tx.hash]), <<>>)

ParseBlockResultsTxsResults(block) ==
    InSequence([k \in DOMAIN block.txs |-> parseCronosSendToIBC(block.txs[k])])

Rewarded(event, name) ==
    WithAmount(event, {"validator"},
        Event(name, [Validator |-> AttributeOf(event.attrs, "validator"),
                     Amount |-> AttributeOf(event.attrs, "amount")]))

\* The reward of the proposer is emitted as a reward of its validator as well, which
\* must not count twice.
IsProposerReward(events, event) ==
    /\ HasEvent(events, "proposer_reward") /\ ~LacksKeys(event, {"validator"})
    /\ \A key \in {"validator", "amount"} :
         AttributeOf(GetFirstEventByType(events, "proposer_reward"), key) = AttributeOf(event.attrs, key)

\* Provisions may be empty like the amount.
Minted(event) ==
    IF ~LacksKeys(event, {"amount", "annual_provisions"}) /\ AttributeOf(event.attrs, "annual_provisions") = ""
    THEN Ignored
    ELSE WithAmount(event, {"annual_provisions", "bonded_ratio", "inflation"}, Event("Minted", <<>>))

\* A slash of a validator is always a jailing too.
Slashed(event) ==
    CASE ~IsSingle(event.attrs) -> Panic
      [] ~HasAttribute(event.attrs, "address") -> Ignored
      [] LacksKeys(event, {"power", "reason"}) -> Panic
      [] OTHER -> LET who == [ConsensusNodeAddress |-> AttributeOf(event.attrs, "address")]
                  IN  Parsed(Event("ValidatorSlashed", who) \o Event("ValidatorJailed", who), <<>>)

\* A transfer of several inputs names no sender and is left out.
OwnTransfer(event) ==
    CASE ~IsSingle(event.attrs) -> Panic
      [] ~HasAttribute(event.attrs, "sender") -> Ignored
      [] OTHER -> Transferred(event, AttributeOf(event.attrs, "sender"))

ParseBeginBlockEvent(events, event) ==
    CASE event.type = "transfer" -> OwnTransfer(event)
      [] event.type = "mint" -> Minted(event)
      [] event.type = "proposer_reward" -> Rewarded(event, "BlockProposerRewarded")
      [] event.type = "rewards" ->
            IF ~LacksKeys(event, {"amount"}) /\ IsProposerReward(events, event)
            THEN Ignored ELSE Rewarded(event, "BlockRewarded")
      [] event.type = "commission" -> Rewarded(event, "BlockCommissioned")
      [] event.type = "slash" -> Slashed(event)
      [] OTHER -> Ignored

ParseBeginBlockEventsCommands(block) ==
    IF HasEvent(block.begin, "proposer_reward")
       /\ LacksKeys([attrs |-> GetFirstEventByType(block.begin, "proposer_reward")], {"validator", "amount"})
    THEN Panic
    ELSE InSequence([i \in DOMAIN block.begin |-> ParseBeginBlockEvent(block.begin, block.begin[i])])

Named(event, keys, name, key) ==
    IF LacksKeys(event, keys) THEN Panic
    ELSE Parsed(Event(name, [Id |-> AttributeOf(event.attrs, key)]), <<>>)

ParseEndBlockEvent(event) ==
    CASE event.type = "transfer" -> OwnTransfer(event)
      [] event.type = "complete_unbonding" ->
            Named(event, {"amount", "delegator", "validator"}, "UnbondingCompleted", "delegator")
      [] event.type = "active_proposal" ->
            Named(event, {"proposal_id", "proposal_result"}, "ProposalEnded", "proposal_id")
      [] event.type = "inactive_proposal" ->
            Named(event, {"proposal_id", "proposal_result"}, "ProposalInactived", "proposal_id")
      [] event.type = "ethereum_send_to_cosmos_handled" ->
            Named(event, {"module", "sender", "receiver", "amount", "bridge_chain_id", "nonce",
                          "ethereum_token_contract", "ethereum_event_vote_record_id"},
                  "GravityEthereumSendToCosmosHandled", "receiver")
      [] OTHER -> Ignored

ParseEndBlockEventsCommands(block) ==
    InSequence([i \in DOMAIN block.end |-> ParseEndBlockEvent(block.end[i])])

ParseValidatorUpdatesCommands(block) ==
    Parsed([i \in DOMAIN block.updates |->
              [name |-> "PowerChanged", params |-> [TendermintPubkey |-> block.updates[i]]]], <<>>)

-----------------------------------------------------------------------------
(* The whole of a block, and of the genesis *)

ParseCreateBlockCommand(block) ==
    Parsed(<<[name |-> "RawBlockCreated", count |-> Len(block.txs)],
             [name |-> "BlockCreated", count |-> Len(block.txs)]>>, <<>>)

ParseTxsToCommands(block) ==
    LET msgs == ParseBlockTxsMsgToCommands(block)
    IN  IF block.txs = <<>> THEN Ignored
        ELSE InSequence(<<ParseTransactionCommands(block, msgs.addrs), msgs,
                          ParseTxAccountTransferCommands(block), ParseBlockResultsTxsResults(block)>>)

\* A panic of a parser is raised again, with the height: the process ends.
ParseBlockToCommands(block) ==
    InSequence(<<ParseCreateBlockCommand(block), ParseTxsToCommands(block),
                 ParseBeginBlockEventsCommands(block), ParseEndBlockEventsCommands(block),
                 ParseValidatorUpdatesCommands(block)>>)

StatusOf(status) ==
    CASE status = "BOND_STATUS_UNSPECIFIED" -> "Inactive"
      [] status = "BOND_STATUS_BONDED" -> "Bonded"
      [] status = "BOND_STATUS_UNBONDING" -> "Unbonding"
      [] status = "BOND_STATUS_UNBONDED" -> "Unbonded"
      [] OTHER -> ""

\* The validators of the genesis transactions come before those of the staking state.
ParseGenesisCommands(genesis) ==
    <<[name |-> "GenesisCreated"]>>
    \o [i \in DOMAIN genesis.gentxs |-> parseGenesisGenTxsMsgCreateValidator(genesis.gentxs[i])]
    \o [i \in DOMAIN genesis.validators |->
          [name |-> "GenesisValidatorCreated",
           params |-> [DelegatorAddress |-> AccountAddress[genesis.validators[i].operator_address],
                       ValidatorAddress |-> genesis.validators[i].operator_address,
                       Status |-> StatusOf(genesis.validators[i].status)]]]
=============================================================================
