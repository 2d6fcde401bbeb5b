----------------------------- MODULE MCChainStats -----------------------------
(***************************************************************************)
(* The three projections of FedProjections, one in a behaviour; the others *)
(* stand still.                                                            *)
(***************************************************************************)
EXTENDS FedProjections

CONSTANTS
    Projections  \* those that a behaviour may watch

Event(name, amount) == [name |-> name, amount |-> amount]
OneCoin(denom, n)   == [denom |-> denom, amount |-> n]

\* A block delegates, undelegates, creates a validator, or pays rewards of one denom to
\* the proposer and of both to all.
MCBlocks == {
    <<>>,
    <<Event("MsgDelegate", OneCoin(1, 1))>>,
    <<Event("MsgUndelegate", OneCoin(1, 1)), Event("MsgCreateValidator", OneCoin(1, 2))>>,
    <<Event("BlockRewarded", <<OneCoin(2, 1)>>), Event("MsgUndelegate", OneCoin(1, 1))>>,
    <<Event("BlockProposerRewarded", <<OneCoin(1, 1)>>),
      Event("BlockRewarded", <<OneCoin(1, 1), OneCoin(2, 2)>>)>> }

MCGeneses == {<<>>, <<Event("CreateGenesisValidator", OneCoin(1, 2))>>}

MCInit ==
    /\ watched \in Projections
    /\ Init /\ Stats!Init /\ Acct!Init
    /\ mode = fedMode

MCNext ==
    /\ UNCHANGED watched
    /\ \/ watched = "ChainStats" /\ Next /\ UNCHANGED <<fedVars, statsVars, acctVars>>
       \/ watched = "ValidatorStats" /\ Stats!Next /\ UNCHANGED <<vars, acctVars>>
       \/ watched = "Account" /\ Acct!Next /\ UNCHANGED <<vars, statsVars>>

MCSpec == MCInit /\ [][MCNext]_<<watched, vars, fedVars, statsVars, acctVars>>
=============================================================================
