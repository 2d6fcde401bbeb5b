------------------------------- MODULE Account -------------------------------
(***************************************************************************)
(* The accounts (projection/account): one row per account that a transfer  *)
(* names.  The row is not computed from the transfer: the projection asks  *)
(* the Cosmos node for the account's balance, whatever the chain has come  *)
(* to since the block, one page of denoms after the other, first for the   *)
(* recipient and then for the sender.  The other columns keep what the     *)
(* first insertion wrote; they are left out.                               *)
(***************************************************************************)
EXTENDS Feeder, Bank

VARIABLES
    rows,       \* view_accounts: the balance of each known account
    todo,       \* what the transaction writes next: "recipient", "sender", "height"
    pages,      \* the pages of its balance read so far, one denom each
    txRows      \* rows as the current transaction sees them

tx   == <<todo, pages, txRows>>
vars == <<feederVars, chainVars, rows, tx>>

NoPages == [denom \in {} |-> 0]
NoRows  == [account \in {} |-> NoPages]

Init ==
    /\ FeederInit
    /\ BankInit
    /\ rows = NoRows
    /\ todo = "height" /\ pages = NoPages /\ txRows = NoRows

-----------------------------------------------------------------------------

\* The chain goes on, whatever the index does.
Transfer        == BankTransfer /\ UNCHANGED <<feederVars, rows, tx>>
CompleteBonding == BankUnbonding /\ UNCHANGED <<feederVars, rows, tx>>

OnInit == StartFeeding /\ UNCHANGED <<chainVars, rows, tx>>

Begin ==
    /\ pc = "feed" /\ next <= height
    /\ pc' = "handle"
    /\ todo' = IF recipients[next] = NoAccount THEN "height" ELSE "recipient"
    /\ pages' = NoPages /\ txRows' = rows
    /\ UNCHANGED <<mode, lastHandled, next, faults, crashes, chainVars, rows>>

\* The account that is written next.
Target == IF todo = "recipient" THEN recipients[next] ELSE senders[next]

\* One request: a page of its balance.
Balances ==
    /\ pc = "handle" /\ todo # "height"
    /\ \E denom \in Denoms \ DOMAIN pages, h \in Served :
           pages' = [d \in DOMAIN pages \cup {denom} |->
                        IF d = denom THEN balances[h][Target][denom] ELSE pages[d]]
    /\ UNCHANGED <<feederVars, chainVars, rows, todo, txRows>>

\* Mutant of Upsert: ON CONFLICT DO NOTHING.
UpsertDoesNothing(account, balance) ==
    [a \in DOMAIN txRows \cup {account} |-> IF a \in DOMAIN txRows THEN txRows[a] ELSE balance]

\* Inserted, or its balance updated on conflict.
Upsert(account, balance) ==
    [a \in DOMAIN txRows \cup {account} |-> IF a = account THEN balance ELSE txRows[a]]

writeAccountInfo ==
    /\ pc = "handle" /\ todo # "height" /\ DOMAIN pages = Denoms
    /\ txRows' = Upsert(Target, pages)
    /\ todo' = IF todo = "recipient" THEN "sender" ELSE "height"
    /\ pages' = NoPages
    /\ UNCHANGED <<feederVars, chainVars, rows>>

EndTransaction == todo' = "height" /\ pages' = NoPages /\ txRows' = NoRows

Commit ==
    /\ pc = "handle" /\ todo = "height"
    /\ rows' = txRows
    /\ FeedNext
    /\ pc' = "feed"
    /\ EndTransaction
    /\ UNCHANGED chainVars

\* Any request or statement may fail and the transaction is rolled back; the reply of
\* the commit may be lost.
HandleEventsFail ==
    /\ pc = "handle"
    /\ Fault
    /\ \/ UNCHANGED <<rows, lastHandled>>
       \/ LostReplies /\ todo = "height" /\ rows' = txRows /\ lastHandled' = next
    /\ FeedAfterFailure
    /\ pc' = "feed"
    /\ EndTransaction
    /\ UNCHANGED chainVars

Crash == FeederCrash /\ EndTransaction /\ UNCHANGED <<chainVars, rows>>

-----------------------------------------------------------------------------

Next ==
    \/ Transfer \/ CompleteBonding
    \/ OnInit \/ Begin \/ Balances \/ writeAccountInfo \/ Commit \/ HandleEventsFail
    \/ Crash

Spec == Init /\ [][Next]_vars

-----------------------------------------------------------------------------
(* Properties *)

Named(h) == {senders[h], recipients[h]} \cap Accounts

\* A row is as new as the newest transfer handled that names its account: each denom
\* shows what the account had at that height or later, less the lag of the node.  So
\* when everything is handled and nothing has moved without a transfer, the rows are the
\* balances of the chain; before, they are ahead of the index, and a row may show two
\* denoms of two heights.
AccountsAreFresh ==
    \A h \in 0..lastHandled : \A account \in Named(h) :
        /\ account \in DOMAIN rows
        /\ \A denom \in Denoms :
               \E g \in 0..height :
                   /\ g >= h - MaxLag
                   /\ rows[account][denom] = balances[g][account][denom]
=============================================================================
