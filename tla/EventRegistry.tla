---------------------------- MODULE EventRegistry ----------------------------
(***************************************************************************)
(* The names of the events (usecase/event): what the store can decode      *)
(* again (RegisterEvents), and what is an event of a message (MSG_EVENTS). *)
(* An event of a message is registered for the success and for the failure *)
(* of its transaction.                                                     *)
(***************************************************************************)
EXTENDS BlockParser

\* The messages of which there are events.
MsgNames ==
    {"MsgSend", "MsgMultiSend", "MsgSetWithdrawAddress", "MsgWithdrawDelegatorReward",
     "MsgWithdrawValidatorCommission", "MsgFundCommunityPool", "MsgSubmitParamUpdateProposal",
     "MsgSubmitCommunityPoolSpendProposal", "MsgSubmitSoftwareUpgradeProposal",
     "MsgSubmitCancelSoftwareUpgradeProposal", "MsgSubmitTextProposal", "MsgDeposit", "MsgVote",
     "MsgCreateValidator", "MsgEditValidator", "MsgDelegate", "MsgUndelegate", "MsgBeginRedelegate",
     "MsgUnjail", "MsgIssueDenom", "MsgMintNFT", "MsgTransferNFT", "MsgEditNFT", "MsgBurnNFT",
     "MsgCreateClient", "MsgUpdateClient", "MsgConnectionOpenInit", "MsgConnectionOpenTry",
     "MsgConnectionOpenAck", "MsgConnectionOpenConfirm", "MsgChannelOpenInit", "MsgChannelOpenTry",
     "MsgChannelOpenAck", "MsgChannelOpenConfirm", "MsgChannelCloseInit", "MsgChannelCloseConfirm",
     "MsgTransfer", "MsgRecvPacket", "MsgAlreadyRelayedRecvPacket", "MsgAcknowledgement",
     "MsgAlreadyRelayedAcknowledgement", "MsgTimeout", "MsgAlreadyRelayedTimeout", "MsgTimeoutOnClose",
     "MsgAlreadyRelayedTimeoutOnClose", "MsgGrant", "MsgRevoke", "MsgExec", "MsgGrantAllowance",
     "MsgRevokeAllowance", "MsgCreateVestingAccount"}

MsgEvents == {msg \o "Created" : msg \in MsgNames} \cup {msg \o "Failed" : msg \in MsgNames}

\* Mutant of Registered: the events of packets that were relayed already are forgotten.
RegisteredButRelayed ==
    (MsgEvents \ {"MsgAlreadyRelayedAcknowledgementCreated", "MsgAlreadyRelayedRecvPacketCreated"})
    \cup {"GenesisCreated", "BlockCreated", "RawBlockCreated", "TransactionCreated", "TransactionFailed",
          "AccountTransferred", "BlockProposerRewarded", "BlockRewarded", "BlockCommissioned", "Minted",
          "PowerChanged", "ValidatorSlashed", "ValidatorJailed", "ProposalVotingPeriodStarted",
          "ProposalEnded", "ProposalInactived", "UnbondingCompleted",
          "GravityEthereumSendToCosmosHandled", "CronosSendToIBCCreated"}

\* The event of a validator of the genesis is not among them.
Registered ==
    MsgEvents
    \cup {"GenesisCreated", "BlockCreated", "RawBlockCreated", "TransactionCreated", "TransactionFailed",
          "AccountTransferred", "BlockProposerRewarded", "BlockRewarded", "BlockCommissioned", "Minted",
          "PowerChanged", "ValidatorSlashed", "ValidatorJailed", "ProposalVotingPeriodStarted",
          "ProposalEnded", "ProposalInactived", "UnbondingCompleted",
          "GravityEthereumSendToCosmosHandled", "CronosSendToIBCCreated"}

\* The store answers a height only if each of its events is registered.
Decodable(events) == \A i \in DOMAIN events : events[i].name \in Registered
=============================================================================
