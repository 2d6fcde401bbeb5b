------------------------------ MODULE MsgParser ------------------------------
(***************************************************************************)
(* The parsers of messages (usecase/parser/msg.go): what a message of a    *)
(* transaction, whether it succeeded, and its log of results turn into.    *)
(*                                                                         *)
(* p = [height, tx, ok, i, m, log, events]: the height of the block, the   *)
(* hash of the transaction, its success, the index and the JSON of the     *)
(* message, its own log and the events of the whole transaction.  A parser *)
(* answers the commands and the addresses which may have signed, or panics.*)
(* The parameters of a command are those that accounts, channels or        *)
(* proposals are found by; amounts, texts and keys are left out, unless    *)
(* reading one may fail.                                                   *)
(***************************************************************************)
EXTENDS ResultLog, FiniteSets

CONSTANTS
    StakingDenom,  \* the denomination that is staked
    Distribution   \* the account of the distribution module

Parsed(cmds, addrs) == [panic |-> FALSE, cmds |-> cmds, addrs |-> addrs]
Panic == [panic |-> TRUE, cmds |-> <<>>, addrs |-> <<>>]
Ignored == Parsed(<<>>, <<>>)

\* A command of a message; its event is named after the success of the transaction.
Cmd(p, msg, params) ==
    [name |-> IF p.ok THEN msg \o "Created" ELSE msg \o "Failed",
     msg |-> msg, tx |-> p.tx, ok |-> p.ok, i |-> p.i, params |-> params]

One(p, msg, params, addrs) == Parsed(<<Cmd(p, msg, params)>>, addrs)

\* A message of a successful transaction answers with an event, or panics.
Needs(p, type, keys, result) == IF p.ok /\ Lacks(p.log, type, keys) THEN Panic ELSE result

-----------------------------------------------------------------------------
(* Bank and distribution *)

ParseMsgSend(p) ==
    One(p, "MsgSend", [FromAddress |-> p.m.from_address, ToAddress |-> p.m.to_address],
        <<p.m.from_address>>)

ParseMsgMultiSend(p) ==
    One(p, "MsgMultiSend", [Inputs |-> p.m.inputs, Outputs |-> p.m.outputs], p.m.inputs)

ParseMsgSetWithdrawAddress(p) ==
    One(p, "MsgSetWithdrawAddress",
        [DelegatorAddress |-> p.m.delegator_address, WithdrawAddress |-> p.m.withdraw_address],
        <<p.m.delegator_address>>)

\* Without a reward to withdraw there is no transfer.
RecipientOr(p, nobody) ==
    IF p.ok /\ HasEvent(p.log, "transfer")
    THEN AttributeOf(GetEventByType(p.log, "transfer"), "recipient") ELSE nobody

TransferIsBroken(p) ==
    p.ok /\ HasEvent(p.log, "transfer") /\ Lacks(p.log, "transfer", {"recipient", "amount"})

ParseMsgWithdrawDelegatorReward(p) ==
    IF TransferIsBroken(p) THEN Panic
    ELSE One(p, "MsgWithdrawDelegatorReward",
             [DelegatorAddress |-> p.m.delegator_address,
              RecipientAddress |-> RecipientOr(p, p.m.delegator_address)],
             <<p.m.delegator_address>>)

\* The message has no delegator: without a transfer nobody is the recipient.
ParseMsgWithdrawValidatorCommission(p) ==
    IF TransferIsBroken(p) THEN Panic
    ELSE One(p, "MsgWithdrawValidatorCommission",
             [ValidatorAddress |-> p.m.validator_address, RecipientAddress |-> RecipientOr(p, "")],
             <<p.m.validator_address>>)

ParseMsgFundCommunityPool(p) ==
    One(p, "MsgFundCommunityPool", [Depositor |-> p.m.depositor], <<p.m.depositor>>)

-----------------------------------------------------------------------------
(* Governance *)

StartProposalVotingPeriod(id) ==
    [name |-> "ProposalVotingPeriodStarted", params |-> [ProposalId |-> id]]

\* A proposal has no identifier unless the transaction succeeded ("").
SubmitProposal(p, msg, params) ==
    LET submitted == GetEventByType(p.log, "submit_proposal")
        id == IF p.ok THEN AttributeOf(submitted, "proposal_id") ELSE ""
    IN  Needs(p, "submit_proposal", {"proposal_id"},
              One(p, msg, [ProposerAddress |-> p.m.proposer, MaybeProposalId |-> id, content |-> params],
                  <<p.m.proposer>>))

parseMsgSubmitParamChangeProposal(p) == SubmitProposal(p, "MsgSubmitParamUpdateProposal", <<>>)

parseMsgSubmitCommunityFundSpendProposal(p) ==
    SubmitProposal(p, "MsgSubmitCommunityPoolSpendProposal", <<p.m.content.recipient>>)

parseMsgSubmitSoftwareUpgradeProposal(p) ==
    SubmitProposal(p, "MsgSubmitSoftwareUpgradeProposal", <<>>)

parseMsgSubmitCancelSoftwareUpgradeProposal(p) ==
    SubmitProposal(p, "MsgSubmitCancelSoftwareUpgradeProposal", <<>>)

parseMsgSubmitTextProposal(p) == SubmitProposal(p, "MsgSubmitTextProposal", <<>>)

\* A content of another type is no proposal to the service, but the first deposit
\* may start its voting period.
ParseContent(p) ==
    CASE p.m.content.type = "ParameterChangeProposal" -> parseMsgSubmitParamChangeProposal(p)
      [] p.m.content.type = "CommunityPoolSpendProposal" -> parseMsgSubmitCommunityFundSpendProposal(p)
      [] p.m.content.type = "SoftwareUpgradeProposal" -> parseMsgSubmitSoftwareUpgradeProposal(p)
      [] p.m.content.type = "CancelSoftwareUpgradeProposal" -> parseMsgSubmitCancelSoftwareUpgradeProposal(p)
      [] p.m.content.type = "TextProposal" -> parseMsgSubmitTextProposal(p)
      [] OTHER -> Ignored

VotingStarted(attrs) ==
    IF HasAttribute(attrs, "voting_period_start")
    THEN <<StartProposalVotingPeriod(AttributeOf(attrs, "voting_period_start"))>> ELSE <<>>

ParseMsgSubmitProposal(p) ==
    LET result == ParseContent(p)
    IN  IF ~p.ok \/ result.panic THEN result
        ELSE Needs(p, "submit_proposal", {},
                   Parsed(result.cmds \o VotingStarted(GetEventByType(p.log, "submit_proposal")),
                          result.addrs))

ParseMsgVote(p) ==
    One(p, "MsgVote", [ProposalId |-> p.m.proposal_id, Voter |-> p.m.voter], <<p.m.voter>>)

\* Mutant of ParseMsgDeposit: one event is expected where a deposit that starts the
\* voting period has two, grouped.
ParseMsgDepositSingle(p) ==
    LET deposit == Cmd(p, "MsgDeposit", [ProposalId |-> p.m.proposal_id, Depositor |-> p.m.depositor])
    IN  Needs(p, "proposal_deposit", {},
              Parsed(IF p.ok THEN <<deposit>> \o VotingStarted(GetEventByType(p.log, "proposal_deposit"))
                     ELSE <<deposit>>, <<p.m.depositor>>))

\* The first event of the deposit that starts the voting period.
ParseMsgDeposit(p) ==
    LET deposit == Cmd(p, "MsgDeposit", [ProposalId |-> p.m.proposal_id, Depositor |-> p.m.depositor])
        starting == SelectSeq(GetEventsByType(p.log, "proposal_deposit"),
                              LAMBDA event : HasAttribute(event, "voting_period_start"))
    IN  IF p.ok /\ ~HasEvent(p.log, "proposal_deposit") THEN Panic
        ELSE Parsed(<<deposit>> \o IF p.ok /\ starting # <<>> THEN VotingStarted(Head(starting)) ELSE <<>>,
                    <<p.m.depositor>>)

-----------------------------------------------------------------------------
(* Staking and slashing *)

\* The rewards that a delegation claims are added up, as one coin: transfers of the
\* distribution module of several denominations, of none, or of another than the
\* staked one are beyond the sum.
RewardsAreBroken(p) ==
    LET transfers == GetEventsByType(p.log, "transfer")
        Broken(event) ==
            \/ ~HasAttribute(event, "sender")
            \/ /\ AttributeOf(event, "sender") = Distribution
               /\ \/ ~HasAttribute(event, "amount")
                  \/ AttributeOf(event, "amount") # {StakingDenom}
    IN  p.ok /\ \E i \in DOMAIN transfers : Broken(transfers[i])

Delegator(p) == <<p.m.delegator_address>>

ParseMsgDelegate(p) ==
    IF RewardsAreBroken(p) THEN Panic
    ELSE One(p, "MsgDelegate",
             [DelegatorAddress |-> p.m.delegator_address, ValidatorAddress |-> p.m.validator_address],
             Delegator(p))

ParseMsgUndelegate(p) ==
    IF RewardsAreBroken(p) THEN Panic
    ELSE Needs(p, "unbond", {"completion_time"},
               One(p, "MsgUndelegate",
                   [DelegatorAddress |-> p.m.delegator_address,
                    ValidatorAddress |-> p.m.validator_address], Delegator(p)))

ParseMsgBeginRedelegate(p) ==
    IF RewardsAreBroken(p) THEN Panic
    ELSE One(p, "MsgBeginRedelegate",
             [DelegatorAddress |-> p.m.delegator_address,
              ValidatorSrcAddress |-> p.m.validator_src_address,
              ValidatorDstAddress |-> p.m.validator_dst_address], Delegator(p))

ParseMsgUnjail(p) ==
    One(p, "MsgUnjail", [ValidatorAddr |-> p.m.validator_addr], <<p.m.validator_addr>>)

ParseMsgCreateValidator(p) ==
    One(p, "MsgCreateValidator",
        [DelegatorAddress |-> p.m.delegator_address, ValidatorAddress |-> p.m.validator_address],
        <<p.m.delegator_address, p.m.validator_address>>)

ParseMsgEditValidator(p) ==
    One(p, "MsgEditValidator", [ValidatorAddress |-> p.m.validator_address], <<p.m.validator_address>>)

\* A validator of the genesis is always bonded.
parseGenesisGenTxsMsgCreateValidator(m) ==
    [name |-> "GenesisValidatorCreated",
     params |-> [DelegatorAddress |-> m.delegator_address, ValidatorAddress |-> m.validator_address,
                 Status |-> "Bonded"]]

-----------------------------------------------------------------------------
(* Non-fungible tokens *)

NFT(p, msg, params) == One(p, msg, params, <<p.m.sender>>)

ParseMsgNFTIssueDenom(p) == NFT(p, "MsgIssueDenom", [Sender |-> p.m.sender])

ParseMsgNFTMintNFT(p) == NFT(p, "MsgMintNFT", [Sender |-> p.m.sender, Recipient |-> p.m.recipient])

ParseMsgNFTTransferNFT(p) ==
    NFT(p, "MsgTransferNFT", [Sender |-> p.m.sender, Recipient |-> p.m.recipient])

ParseMsgNFTEditNFT(p) == NFT(p, "MsgEditNFT", [Sender |-> p.m.sender])

ParseMsgNFTBurnNFT(p) == NFT(p, "MsgBurnNFT", [Sender |-> p.m.sender])

-----------------------------------------------------------------------------
(* Authorisations and allowances *)

Between(p, msg) ==
    One(p, msg, [Granter |-> p.m.granter, Grantee |-> p.m.grantee], <<p.m.granter>>)

parseRawMsgSendGrant(p) == Between(p, "MsgGrant")

\* Of a failed transaction the granter is read from the grant to send, which is nil.
parseRawMsgStackGrant(p) == IF p.ok THEN Between(p, "MsgGrant") ELSE Panic

\* Of any transaction the granter is read from the grant to send, which is nil.
parseRawMsgGenericGrant(p) == Panic

ParseMsgGrant(p) ==
    CASE p.m.authorization = "SendAuthorization" -> parseRawMsgSendGrant(p)
      [] p.m.authorization = "StakeAuthorization" -> parseRawMsgStackGrant(p)
      [] p.m.authorization = "GenericAuthorization" -> parseRawMsgGenericGrant(p)
      [] OTHER -> Ignored

ParseMsgRevoke(p) == Between(p, "MsgRevoke")

parseRawMsgGrantBasicAllowance(p) == Between(p, "MsgGrantAllowance")

\* The granter is read from the basic allowance, which is nil.
parseRawMsgGrantPeriodicAllowance(p) == Panic
parseRawMsgGrantAllowedMsgAllowance(p) == Panic

ParseMsgGrantAllowance(p) ==
    CASE p.m.allowance = "BasicAllowance" -> parseRawMsgGrantBasicAllowance(p)
      [] p.m.allowance = "PeriodicAllowance" -> parseRawMsgGrantPeriodicAllowance(p)
      [] p.m.allowance = "AllowedMsgAllowance" -> parseRawMsgGrantAllowedMsgAllowance(p)
      [] OTHER -> Ignored

ParseMsgRevokeAllowance(p) == Between(p, "MsgRevokeAllowance")

ParseMsgCreateVestingAccount(p) ==
    One(p, "MsgCreateVestingAccount",
        [FromAddress |-> p.m.from_address, ToAddress |-> p.m.to_address], <<p.m.from_address>>)
=============================================================================
