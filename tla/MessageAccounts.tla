--------------------------- MODULE MessageAccounts ---------------------------
(***************************************************************************)
(* Whom a message is about, as the two account projections tell it: the    *)
(* projection account_message (rows of messages) and the projection        *)
(* account_transaction (rows of transactions) name the accounts of a       *)
(* message each for itself.  An account may be "" where the message has    *)
(* none.                                                                   *)
(***************************************************************************)
EXTENDS EventRegistry

IsMsg(event) == event.name \in MsgEvents

ProposalMsgs ==
    {"MsgSubmitParamUpdateProposal", "MsgSubmitCommunityPoolSpendProposal",
     "MsgSubmitSoftwareUpgradeProposal", "MsgSubmitCancelSoftwareUpgradeProposal"}

HandshakeMsgs ==
    {"MsgCreateClient", "MsgUpdateClient", "MsgConnectionOpenInit", "MsgConnectionOpenTry",
     "MsgConnectionOpenAck", "MsgConnectionOpenConfirm", "MsgChannelOpenInit", "MsgChannelOpenTry",
     "MsgChannelOpenAck", "MsgChannelOpenConfirm"}

CloseMsgs == {"MsgChannelCloseInit", "MsgChannelCloseConfirm"}

AccountsOfBank(msg, params) ==
    CASE msg = "MsgSend" -> {params.FromAddress, params.ToAddress}
      [] msg = "MsgMultiSend" -> ToSet(params.Inputs) \cup ToSet(params.Outputs)
      [] msg = "MsgSetWithdrawAddress" -> {params.DelegatorAddress, params.WithdrawAddress}
      [] msg = "MsgWithdrawDelegatorReward" -> {params.DelegatorAddress}
      [] msg = "MsgWithdrawValidatorCommission" -> {params.RecipientAddress}
      [] msg = "MsgFundCommunityPool" -> {params.Depositor}
      [] OTHER -> {}

AccountsOfGovernance(msg, params) ==
    CASE msg \in ProposalMsgs -> {params.ProposerAddress}
      [] msg = "MsgDeposit" -> {params.Depositor}
      [] msg = "MsgVote" -> {params.Voter}
      [] OTHER -> {}

AccountsOfStaking(msg, params) ==
    CASE msg \in {"MsgCreateValidator", "MsgDelegate", "MsgUndelegate", "MsgBeginRedelegate"} ->
            {params.DelegatorAddress}
      [] msg = "MsgEditValidator" -> {AccountAddress[params.ValidatorAddress]}
      [] msg = "MsgUnjail" -> {AccountAddress[params.ValidatorAddr]}
      [] OTHER -> {}

AccountsOfNFT(msg, params) ==
    CASE msg \in {"MsgIssueDenom", "MsgEditNFT", "MsgBurnNFT"} -> {params.Sender}
      [] msg \in {"MsgMintNFT", "MsgTransferNFT"} -> {params.Sender, params.Recipient}
      [] OTHER -> {}

AccountsOfHandshake(msg, params) == IF msg \in HandshakeMsgs THEN {params.Signer} ELSE {}

\* The party of a packet on this chain.
AccountsOfPacket(msg, params, ok) ==
    CASE msg = "MsgAcknowledgement" -> {params.Signer, params.Packet.sender}
      [] msg = "MsgRecvPacket" -> {params.Signer, params.Packet.receiver}
      [] msg = "MsgTransfer" -> {params.Sender}
      [] msg \in {"MsgTimeout", "MsgTimeoutOnClose"} ->
            {params.Signer} \cup IF ok THEN {params.RefundReceiver} ELSE {}
      [] OTHER -> {}

AccountsOfClose(msg, params) == IF msg \in CloseMsgs THEN {params.Signer} ELSE {}

AccountsOfGrant(msg, params) ==
    CASE msg \in {"MsgGrant", "MsgRevoke", "MsgGrantAllowance", "MsgRevokeAllowance"} ->
            {params.Granter, params.Grantee}
      [] msg = "MsgCreateVestingAccount" -> {params.FromAddress, params.ToAddress}
      [] OTHER -> {}

\* A proposal of a text, and what was relayed already, are messages of nobody here.
MessageAccounts(event) ==
    LET msg == event.msg  params == event.params
    IN  AccountsOfBank(msg, params) \cup AccountsOfGovernance(msg, params)
        \cup AccountsOfStaking(msg, params) \cup AccountsOfNFT(msg, params)
        \cup AccountsOfHandshake(msg, params) \cup AccountsOfPacket(msg, params, event.ok)
        \cup AccountsOfClose(msg, params) \cup AccountsOfGrant(msg, params)

\* Mutant of InvolvedByModules: the grantee is not named.
InvolvedByModulesGranterOnly(msg, params) ==
    CASE msg \in {"MsgSend", "MsgCreateVestingAccount"} -> {params.FromAddress, params.ToAddress}
      [] msg \in {"MsgGrant", "MsgRevoke", "MsgGrantAllowance", "MsgRevokeAllowance"} -> {params.Granter}
      [] OTHER -> {}

\* The accounts that account_transaction adds to the signers of the transaction:
\* of the modules of the chain ...
InvolvedByModules(msg, params) ==
    CASE msg \in {"MsgSend", "MsgCreateVestingAccount"} -> {params.FromAddress, params.ToAddress}
      [] msg = "MsgMultiSend" -> ToSet(params.Inputs \o params.Outputs)
      [] msg = "MsgSetWithdrawAddress" -> {params.DelegatorAddress, params.WithdrawAddress}
      [] msg = "MsgWithdrawValidatorCommission" -> {params.RecipientAddress}
      [] msg \in {"MsgFundCommunityPool", "MsgDeposit"} -> {params.Depositor}
      [] msg \in ProposalMsgs \cup {"MsgSubmitTextProposal"} -> {params.ProposerAddress}
      [] msg = "MsgVote" -> {params.Voter}
      [] msg \in {"MsgWithdrawDelegatorReward", "MsgCreateValidator", "MsgDelegate", "MsgUndelegate",
                  "MsgBeginRedelegate"} -> {params.DelegatorAddress}
      [] msg = "MsgEditValidator" -> {AccountAddress[params.ValidatorAddress]}
      [] msg = "MsgUnjail" -> {AccountAddress[params.ValidatorAddr]}
      [] msg \in {"MsgIssueDenom", "MsgEditNFT", "MsgBurnNFT"} -> {params.Sender}
      [] msg \in {"MsgMintNFT", "MsgTransferNFT"} -> {params.Sender, params.Recipient}
      [] msg \in {"MsgGrant", "MsgRevoke", "MsgGrantAllowance", "MsgRevokeAllowance"} ->
            {params.Granter, params.Grantee}
      [] OTHER -> {}

\* ... and of the messages over IBC.
InvolvedByIBC(msg, params, ok) ==
    CASE msg \in HandshakeMsgs \cup CloseMsgs -> {params.Signer}
      [] msg = "MsgAcknowledgement" -> {params.Signer, params.Packet.sender}
      [] msg = "MsgRecvPacket" -> {params.Signer, params.Packet.receiver}
      [] msg = "MsgTransfer" -> {params.Sender}
      [] msg \in {"MsgTimeout", "MsgTimeoutOnClose"} /\ ok -> {params.Signer, params.RefundReceiver}
      [] msg \in {"MsgTimeout", "MsgTimeoutOnClose"} /\ ~ok -> {params.Signer}
      [] OTHER -> {}

TransactionAccounts(event) ==
    InvolvedByModules(event.msg, event.params) \cup InvolvedByIBC(event.msg, event.params, event.ok)
=============================================================================
