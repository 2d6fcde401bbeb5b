--------------------------------- MODULE Bank ---------------------------------
(***************************************************************************)
(* The chain as the account projection sees it: what every account owns    *)
(* after each height, the transfer that the events of a height announce,   *)
(* and the Cosmos node that is asked for balances.                         *)
(***************************************************************************)
EXTENDS Integers

CONSTANTS
    Accounts, Denoms,
    NoAccount,  \* sender and recipient of a block without a transfer
    MaxLag,     \* heights that the Cosmos node may be behind the chain
    LastHeight  \* bound: heights of the chain

ASSUME NoAccountAssumption == NoAccount \notin Accounts
ASSUME MaxLagAssumption == MaxLag \in Nat

VARIABLES
    height,     \* height of the chain
    balances,   \* what each account has after each height
    senders, recipients  \* the two accounts of the transfer of each height

chainVars == <<height, balances, senders, recipients>>

BankInit ==
    /\ height = 0
    /\ balances = [h \in {0} |-> [a \in Accounts |-> [d \in Denoms |-> 1]]]
    /\ senders = [h \in {0} |-> NoAccount] /\ recipients = [h \in {0} |-> NoAccount]

\* History grows by one height.
Extended(history, value) ==
    [h \in 0..(height + 1) |-> IF h = height + 1 THEN value ELSE history[h]]

NewHeight(balance, sender, recipient) ==
    /\ height < LastHeight
    /\ height' = height + 1
    /\ balances' = Extended(balances, balance)
    /\ senders' = Extended(senders, sender) /\ recipients' = Extended(recipients, recipient)

\* A transfer is announced by an event of its block.
BankTransfer ==
    \E sender, recipient \in Accounts, denom \in Denoms :
        /\ sender # recipient
        /\ balances[height][sender][denom] > 0
        /\ NewHeight([balances[height] EXCEPT ![sender][denom] = @ - 1,
                                              ![recipient][denom] = @ + 1],
                     sender, recipient)

\* Tokens that finish unbonding come without one.
BankUnbonding ==
    \E account \in Accounts, denom \in Denoms :
        NewHeight([balances[height] EXCEPT ![account][denom] = @ + 1], NoAccount, NoAccount)

\* The heights that a request may be answered from.
Served == {h \in 0..height : h >= height - MaxLag}
=============================================================================
