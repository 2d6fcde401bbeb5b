--------------------------------- MODULE NFT ---------------------------------
(***************************************************************************)
(* The NFT projection (projection/nft): denoms, tokens and messages, and   *)
(* for each of the three a table of totals that the list queries use as    *)
(* their number of rows.                                                   *)
(*                                                                         *)
(* A total is kept for every combination of the filters of a list: its     *)
(* identity has "-" for a filter that is not given.  Tables of totals are  *)
(* never counted again: each handler adds and subtracts what it changes.   *)
(*                                                                         *)
(* An action handles one event.  The events of a block are consecutive     *)
(* actions of one transaction, which NextBlock commits; every invariant    *)
(* holds between two events as well.                                       *)
(***************************************************************************)
EXTENDS Integers, Sequences, FiniteSets

CONSTANTS
    Denoms, TokenIds, Accounts,
    Drops,          \* names of drops in the data of a token
    Nil,            \* a nil *string: no drop, no token
    Dash,            \* "-" in an identity
    MaxMessages,    \* bound: messages handled
    MaxHeight       \* bound: block heights told apart

MessageTypes == {"IssueDenom", "Mint", "Edit", "Transfer"}

\* No address and no type of messages is written like a filter that is not given.
ASSUME DashAssumption == Dash \notin Accounts \cup MessageTypes

VARIABLES
    enableDrop,     \* config.EnableDrop
    height,         \* height of the block being handled
    denoms,         \* view_nft_denoms, in the order of their rows
    denomTotals,    \* view_nft_denoms_total
    tokens,         \* view_nft_tokens, by denom and token id
    tokenTotals,    \* view_nft_tokens_total
    messages,       \* rows that view_nft_messages has ever had, by id
    messageTotals,  \* view_nft_messages_total
    deleted         \* ids of the rows deleted from view_nft_messages

messageVars == <<messages, messageTotals, deleted>>
vars == <<enableDrop, height, denoms, denomTotals, tokens, tokenTotals, messageVars>>

-----------------------------------------------------------------------------
(* Total: the tables of totals. *)

\* An upsert; identities are told apart by their four parts.
Increment(totals, identities) ==
    [k \in DOMAIN totals \cup identities |->
        IF k \notin DOMAIN totals THEN 1
        ELSE IF k \in identities THEN totals[k] + 1 ELSE totals[k]]

\* A row that does not exist is inserted with the number to subtract.
Decrement(totals, identities) ==
    [k \in DOMAIN totals \cup identities |->
        IF k \notin DOMAIN totals THEN 1
        ELSE IF k \in identities THEN totals[k] - 1 ELSE totals[k]]

FindBy(totals, identity) ==
    IF identity \in DOMAIN totals THEN totals[identity] ELSE 0

\* The sum of the totals of some identities, none of which is negative
SumBy(totals, identities) ==
    Cardinality(UNION {{k} \X (1..totals[k]) : k \in identities \cap DOMAIN totals})

\* The identities a row with the four fields counts for.
Identities(a, b, c, d) == {Dash, a} \X {Dash, b} \X {Dash, c} \X {Dash, d}

-----------------------------------------------------------------------------
(* Helpers of the handlers *)

Token(drop, minter, owner, edited, transferred) ==
    [drop |-> drop, minter |-> minter, owner |-> owner,
     editedAt |-> edited, transferredAt |-> transferred]

TokenIdentities(denom, row) == Identities(denom, row.drop, row.minter, row.owner)

\* Mutant of OwnerIdentities: the drop is left out.
OwnerIdentitiesNoDrop(denom, row) ==
    {k \in TokenIdentities(denom, row) : k[4] = row.owner /\ k[2] = Dash}

OwnerIdentities(denom, row) == {k \in TokenIdentities(denom, row) : k[4] = row.owner}

\* Mutant of MessageIdentities: a message of no token has no combinations.
MessageIdentitiesOfToken(m) ==
    {k \in Identities(m.drop, m.denom, m.token, m.type) : m.token # Nil \/ k[4] = Dash}

MessageIdentities(m) == Identities(m.drop, m.denom, m.token, m.type)

\* insertMessage
InsertMessage(type, denom, token, drop) ==
    /\ Len(messages) < MaxMessages
    /\ LET m == [type |-> type, denom |-> denom, token |-> token,
                 drop |-> drop, height |-> height]
       IN  /\ messageTotals' = Increment(messageTotals, MessageIdentities(m))
           /\ messages' = Append(messages, m)
    /\ UNCHANGED deleted

\* updateToken: the owner's totals move from the old row to the new one.
UpdateToken(id, row) ==
    /\ tokens' = [tokens EXCEPT ![id] = row]
    /\ tokenTotals' =
          Increment(Decrement(tokenTotals, OwnerIdentities(id[1], tokens[id])),
                    OwnerIdentities(id[1], row))

\* The drop named by the data of a message, if drops are enabled and it has one.
DropOf(drop, otherwise) == IF enableDrop /\ drop # Nil THEN drop ELSE otherwise

-----------------------------------------------------------------------------
(* HandleEvents *)

\* The total of a denom has its own name for an identity, and not its creator.
IssueDenom(denom, sender) ==
    /\ \A i \in DOMAIN denoms : denoms[i].id # denom
    /\ denoms' = Append(denoms, [id |-> denom, creator |-> sender])
    /\ denomTotals' = Increment(denomTotals, {Dash, denom})
    /\ InsertMessage("IssueDenom", denom, Nil, Nil)
    /\ UNCHANGED <<enableDrop, height, tokens, tokenTotals>>

Mint(denom, token, minter, owner, drop) ==
    LET row == Token(DropOf(drop, Nil), minter, owner, height, height)
    IN  /\ \E i \in DOMAIN denoms : denoms[i].id = denom
        /\ <<denom, token>> \notin DOMAIN tokens
        /\ tokens' = [id \in DOMAIN tokens \cup {<<denom, token>>} |->
                         IF id = <<denom, token>> THEN row ELSE tokens[id]]
        /\ tokenTotals' = Increment(tokenTotals, TokenIdentities(denom, row))
        /\ InsertMessage("Mint", denom, token, row.drop)
        /\ UNCHANGED <<enableDrop, height, denoms, denomTotals>>

\* Mutant of EditedToken: an edit counts as a transfer.
EditedTokenTransferred(row, drop) ==
    Token(DropOf(drop, row.drop), row.minter, row.owner, row.editedAt, height)

EditedToken(row, drop) ==
    Token(DropOf(drop, row.drop), row.minter, row.owner, height, row.transferredAt)

\* The name, URI and data are rewritten; data without a drop keep the old one.
Edit(id, drop) ==
    /\ id \in DOMAIN tokens
    /\ UpdateToken(id, EditedToken(tokens[id], drop))
    /\ InsertMessage("Edit", id[1], id[2], DropOf(drop, tokens[id].drop))
    /\ UNCHANGED <<enableDrop, height, denoms, denomTotals>>

Transfer(id, recipient) ==
    LET row == tokens[id]
    IN  /\ id \in DOMAIN tokens
        /\ UpdateToken(id, Token(row.drop, row.minter, recipient, row.editedAt, height))
        /\ InsertMessage("Transfer", id[1], id[2], row.drop)
        /\ UNCHANGED <<enableDrop, height, denoms, denomTotals>>

MessageRows == DOMAIN messages \ deleted

\* The rows of a token's messages
MessagesOf(id) ==
    {i \in MessageRows : messages[i].denom = id[1] /\ messages[i].token = id[2]}

\* deleteToken: the token and its messages go, the totals of the messages stay;
\* the burn itself is not recorded.
Burn(id) ==
    /\ id \in DOMAIN tokens
    /\ tokens' = [other \in DOMAIN tokens \ {id} |-> tokens[other]]
    /\ deleted' = deleted \cup MessagesOf(id)
    /\ tokenTotals' = Decrement(tokenTotals, TokenIdentities(id[1], tokens[id]))
    /\ UNCHANGED <<enableDrop, height, denoms, denomTotals, messages, messageTotals>>

\* UpdateLastHandledEventHeight and Commit; heights beyond the bound are alike.
NextBlock ==
    /\ height' = IF height < MaxHeight THEN height + 1 ELSE height
    /\ UNCHANGED <<enableDrop, denoms, denomTotals, tokens, tokenTotals, messageVars>>

-----------------------------------------------------------------------------
(* The lists of the views.  A filter has Dash where it asks for nothing; the   *)
(* total is looked up by it and never counted.                                 *)

Asked(filter, value) == filter \in {Dash, value}

\* DenomsView.List
DenomsList(creator) ==
    [rows |-> {i \in DOMAIN denoms : Asked(creator, denoms[i].creator)},
     total |-> FindBy(denomTotals, creator)]

\* TokensView.List, whose filter is a denom, a drop, a minter and an owner
TokensList(filter) ==
    [rows |-> {id \in DOMAIN tokens :
                 /\ Asked(filter[1], id[1]) /\ Asked(filter[2], tokens[id].drop)
                 /\ Asked(filter[3], tokens[id].minter) /\ Asked(filter[4], tokens[id].owner)},
     total |-> FindBy(tokenTotals, filter)]

\* TokensView.ListDrops counts its rows.
ListDrops ==
    LET drops == {tokens[id].drop : id \in DOMAIN tokens} \ {Nil}
    IN  [rows |-> drops, total |-> Cardinality(drops)]

\* A filter is a drop, a denom and a token; of the types any of some, or all.
HasFilter(m, filter, types) ==
    /\ Asked(filter[1], m.drop) /\ Asked(filter[2], m.denom) /\ Asked(filter[3], m.token)
    /\ types = {} \/ m.type \in types

ListIdentities(filter, types) ==
    {<<filter[1], filter[2], filter[3], type>> : type \in IF types = {} THEN {Dash} ELSE types}

\* MessagesView.List
MessagesList(filter, types) ==
    [rows |-> {i \in MessageRows : HasFilter(messages[i], filter, types)},
     total |-> SumBy(messageTotals, ListIdentities(filter, types))]

-----------------------------------------------------------------------------

Init ==
    /\ enableDrop \in BOOLEAN /\ height = 0 /\ denoms = << >>
    /\ tokens = << >> /\ messages = << >> /\ deleted = {}
    /\ denomTotals = << >> /\ tokenTotals = << >> /\ messageTotals = << >>

Event ==
    \/ \E d \in Denoms, sender \in Accounts : IssueDenom(d, sender)
    \/ \E d \in Denoms, t \in TokenIds, m, o \in Accounts, drop \in Drops \cup {Nil} :
          Mint(d, t, m, o, drop)
    \/ \E id \in Denoms \X TokenIds :
          \/ \E drop \in Drops \cup {Nil} : Edit(id, drop)
          \/ \E recipient \in Accounts : Transfer(id, recipient)
          \/ Burn(id)

Next == Event \/ NextBlock

Spec == Init /\ [][Next]_vars

-----------------------------------------------------------------------------
(* Properties *)

TokenFilters ==
    (Denoms \cup {Dash}) \X (Drops \cup {Dash}) \X (Accounts \cup {Dash}) \X (Accounts \cup {Dash})

\* A list has as many rows as its total says, through mints, edits that change the
\* drop, transfers to and fro and burns, although each of them only adds to totals and
\* subtracts from them: every list of an owner (updateToken), every list that is not of
\* one drop and, when drops are disabled, every list of tokens; and the list of all
\* denoms.  Left out is what the code does not keep: an edit that changes the drop of a
\* token leaves the totals of a drop without an owner behind, and the denoms of one
\* creator are counted under their own identifiers.
ListTotalsMatch ==
    /\ \A filter \in TokenFilters :
          ~enableDrop \/ filter[2] = Dash \/ filter[4] # Dash =>
              TokensList(filter).total = Cardinality(TokensList(filter).rows)
    /\ DenomsList(Dash).total = Cardinality(DenomsList(Dash).rows)
    /\ ListDrops.rows # {} => enableDrop

MessageFilters == (Drops \cup {Dash}) \X (Denoms \cup {Dash}) \X (TokenIds \cup {Dash})

\* The total of a list of messages counts every message ever inserted, whichever drop
\* its token had at the time and whether or not the token has been burnt since: until
\* a burn it is the number of rows of the list (insertMessage).
MessageTotalsCountInsertions ==
    \A filter \in MessageFilters, types \in SUBSET MessageTypes :
        LET list == MessagesList(filter, types)
            gone == {i \in deleted : HasFilter(messages[i], filter, types)}
        IN  list.total = Cardinality(list.rows) + Cardinality(gone)

\* A token's row is dated by the newest of its messages: mint and edit set the
\* time of the last edit, mint and transfer the time of the last transfer.
TokensAreDated ==
    \A id \in DOMAIN tokens :
        LET dates(types) == {messages[i].height : i \in
                                {j \in MessagesOf(id) : messages[j].type \in types}}
            newest(S) == CHOOSE h \in S : \A g \in S : g <= h
        IN  /\ tokens[id].editedAt = newest(dates({"Mint", "Edit"}))
            /\ tokens[id].transferredAt = newest(dates({"Mint", "Transfer"}))
=============================================================================
